---- MODULE Spec2Model ----
(***************************************************************************)
(* Lyrics resolution engine of services/audio-separator/app.py.            *)
(*                                                                         *)
(* Texts are sequences of one-character strings, so that the regular       *)
(* expressions, strip(), lower() and split("\n") of the Python code are    *)
(* computed character by character.                                        *)
(***************************************************************************)
EXTENDS Integers, Sequences, FiniteSets, TLC

\* None where the code holds a text-or-None: every such None is tested by
\* truthiness only, as the empty text is
NoText == <<>>

\* durationMs None or 0: fetch_lyrics turns both into duration_seconds None
NoDuration == 0

NL == "\n"

Whitespace == {" ", "\t", NL, "\r"}

Digits == {"0", "1", "2", "3", "4", "5", "6", "7", "8", "9"}

DigitSeq == <<"0", "1", "2", "3", "4", "5", "6", "7", "8", "9">>

UpperSeq == <<"A", "B", "C", "D", "E", "F", "G", "H", "I", "J", "K", "L", "M",
              "N", "O", "P", "Q", "R", "S", "T", "U", "V", "W", "X", "Y", "Z">>

LowerSeq == <<"a", "b", "c", "d", "e", "f", "g", "h", "i", "j", "k", "l", "m",
              "n", "o", "p", "q", "r", "s", "t", "u", "v", "w", "x", "y", "z">>

Letters == {UpperSeq[i] : i \in 1..Len(UpperSeq)} \cup {LowerSeq[i] : i \in 1..Len(LowerSeq)}

\* int(c) for one decimal digit
DigitVal(c) == (CHOOSE i \in 1..Len(DigitSeq) : DigitSeq[i] = c) - 1

\* str.lower() on one character
LowerChar(c) ==
    IF \E i \in 1..Len(UpperSeq) : UpperSeq[i] = c
    THEN LowerSeq[CHOOSE i \in 1..Len(UpperSeq) : UpperSeq[i] = c]
    ELSE c

\* str.lower()
LowerStr(s) == [i \in 1..Len(s) |-> LowerChar(s[i])]

\* s[i] of a text, "" past either end
At(s, i) == IF i \in 1..Len(s) THEN s[i] ELSE ""

Min(a, b) == IF a <= b THEN a ELSE b

\* number of leading characters of s, from position p on, that belong to class
RECURSIVE Run(_, _, _)
Run(s, p, class) == IF At(s, p) \in class THEN 1 + Run(s, p + 1, class) ELSE 0

\* number of trailing characters of s[1..p] that belong to class
RECURSIVE RunBack(_, _, _)
RunBack(s, p, class) == IF At(s, p) \in class THEN 1 + RunBack(s, p - 1, class) ELSE 0

\* str.strip()
StripStr(s) ==
    LET a == Run(s, 1, Whitespace)
    IN  IF a = Len(s) THEN <<>>
        ELSE SubSeq(s, a + 1, Len(s) - RunBack(s, Len(s), Whitespace))

\* str.split("\n"): always at least one piece
RECURSIVE SplitFrom(_, _, _)
SplitFrom(s, start, p) ==
    IF p > Len(s) THEN <<SubSeq(s, start, Len(s))>>
    ELSE IF s[p] = NL THEN <<SubSeq(s, start, p - 1)>> \o SplitFrom(s, p + 1, p + 1)
    ELSE SplitFrom(s, start, p + 1)

SplitLines(s) == SplitFrom(s, 1, 1)

\* "\n".join(lines)
RECURSIVE JoinLines(_)
JoinLines(lines) ==
    IF lines = <<>> THEN <<>>
    ELSE IF Len(lines) = 1 THEN lines[1]
    ELSE lines[1] \o <<NL>> \o JoinLines(Tail(lines))

\* sub in s
Contains(s, sub) ==
    \E i \in 1..(Len(s) - Len(sub) + 1) : SubSeq(s, i, i + Len(sub) - 1) = sub

\* Length of the match of \[\d+:\d{2} at position p of s, 0 when it does not match.
TsPrefixLen(s, p) ==
    IF At(s, p) # "[" THEN 0
    ELSE LET n == Run(s, p + 1, Digits)
         IN  IF /\ n >= 1
                /\ At(s, p + 1 + n) = ":"
                /\ At(s, p + 2 + n) \in Digits
                /\ At(s, p + 3 + n) \in Digits
             THEN n + 4
             ELSE 0

\* Length of the match of \[\d+:\d{2}(?:\.\d{2,3})?\] at position p, 0 when none.
TagLen(s, p) ==
    LET pre == TsPrefixLen(s, p)
        q == p + pre
        frac == Run(s, q + 1, Digits)
    IN  IF pre = 0 THEN 0
        ELSE IF At(s, q) = "]" THEN pre + 1
        ELSE IF At(s, q) = "." /\ frac >= 3 /\ At(s, q + 4) = "]" THEN pre + 5
        ELSE IF At(s, q) = "." /\ frac >= 2 /\ At(s, q + 3) = "]" THEN pre + 4
        ELSE 0

\* Length of the match of \[\d+:\d{2}(?:\.\d{2,3})?\]\s* at position p, 0 when none.
TagWsLen(s, p) ==
    LET t == TagLen(s, p)
    IN  IF t = 0 THEN 0 ELSE t + Run(s, p + t, Whitespace)

\* re.sub(r"\[\d+:\d{2}(?:\.\d{2,3})?\]\s*", "", s): one left-to-right pass
RECURSIVE RemoveTagsFrom(_, _)
RemoveTagsFrom(s, p) ==
    IF p > Len(s) THEN <<>>
    ELSE IF TagWsLen(s, p) > 0 THEN RemoveTagsFrom(s, p + TagWsLen(s, p))
    ELSE <<s[p]>> \o RemoveTagsFrom(s, p + 1)

RemoveTags(s) == RemoveTagsFrom(s, 1)

\* re.sub(r"^\[\d+:\d{2}(?:\.\d{2,3})?\]\s*", "", s): only at the start
RemoveLeadingTag(s) == SubSeq(s, TagWsLen(s, 1) + 1, Len(s))

\* re.match(r"^\[[a-z]{2}:.+\]$", s, re.IGNORECASE)
IsMetadataTag(s) ==
    /\ Len(s) >= 6
    /\ s[1] = "["
    /\ s[2] \in Letters
    /\ s[3] \in Letters
    /\ s[4] = ":"
    /\ s[Len(s)] = "]"

\* the timestamp of a matched tag at position 1, in milliseconds:
\* mins * 60 + secs + int(cs.ljust(3, "0")[:3]) / 1000
RECURSIVE DecimalValue(_, _, _)
DecimalValue(s, from, to) ==
    IF from > to THEN 0
    ELSE DecimalValue(s, from, to - 1) * 10 + DigitVal(s[to])

TagMillis(s) ==
    LET n == Run(s, 2, Digits)
        mins == DecimalValue(s, 2, 1 + n)
        secs == DecimalValue(s, n + 3, n + 4)
        len == TagLen(s, 1)
        nfrac == len - (n + 4) - 2
        ms == IF nfrac = 3 THEN DecimalValue(s, n + 6, n + 8)
              ELSE IF nfrac = 2 THEN DecimalValue(s, n + 6, n + 7) * 10
              ELSE 0
    IN  (mins * 60 + secs) * 1000 + ms

\* _extract_lrc_timestamps, in milliseconds
RECURSIVE ExtractFromLines(_)
ExtractFromLines(lines) ==
    IF lines = <<>> THEN <<>>
    ELSE LET line == StripStr(Head(lines))
         IN  (IF TagLen(line, 1) > 0 THEN <<TagMillis(line)>> ELSE <<>>)
             \o ExtractFromLines(Tail(lines))

ExtractLrcTimestamps(lrc_content) == ExtractFromLines(SplitLines(lrc_content))

\* _has_lrc_timestamps: re.search(r"^\[\d+:\d{2}", content, re.MULTILINE)
HasLrcTimestamps(content) ==
    \E p \in 1..Len(content) :
        /\ (p = 1 \/ content[p - 1] = NL)
        /\ TsPrefixLen(content, p) > 0

\* _count_lyric_lines
RECURSIVE CountFromLines(_)
CountFromLines(lines) ==
    IF lines = <<>> THEN 0
    ELSE LET stripped == StripStr(Head(lines))
             counts ==
                 IF stripped = <<>> THEN FALSE
                 ELSE IF TsPrefixLen(stripped, 1) > 0
                      THEN RemoveLeadingTag(stripped) # <<>>
                      ELSE stripped[1] # "["
         IN  (IF counts THEN 1 ELSE 0) + CountFromLines(Tail(lines))

CountLyricLines(content) == CountFromLines(SplitLines(content))

\* _strip_lrc_to_plain, as the list of its lines
RECURSIVE PlainLines(_)
PlainLines(lines) ==
    IF lines = <<>> THEN <<>>
    ELSE LET stripped == StripStr(Head(lines))
             cleaned == RemoveTags(stripped)
         IN  (IF stripped # <<>> /\ cleaned # <<>> /\ ~IsMetadataTag(cleaned)
              THEN <<StripStr(LowerStr(cleaned))>>
              ELSE <<>>)
             \o PlainLines(Tail(lines))

StripLrcToPlain(content) == JoinLines(PlainLines(SplitLines(content)))

\* the set of the elements of a list
SetOf(list) == {list[i] : i \in 1..Len(list)}

\* set(plain.split("\n"))
LineSet(plain) == SetOf(SplitLines(plain))

\* the share of the lines of a that b has too, in place of the Jaccard index
ShareOfFirst(lines_a, lines_b) ==
    <<Cardinality(lines_a \cap lines_b), Cardinality(lines_a)>>

\* len(intersection) / len(union) as the fraction <<numerator, denominator>>
Jaccard(lines_a, lines_b) ==
    <<Cardinality(lines_a \cap lines_b), Cardinality(lines_a \cup lines_b)>>

\* _lyrics_similarity from the two plain projections; <<0, 1>> is 0.0
SimilarityOfPlain(plain_a, plain_b) ==
    IF plain_a = <<>> \/ plain_b = <<>> THEN <<0, 1>>
    ELSE Jaccard(LineSet(plain_a), LineSet(plain_b))

\* _lyrics_similarity as a fraction
LyricsSimilarity(a, b) == SimilarityOfPlain(StripLrcToPlain(a), StripLrcToPlain(b))

MinLyricLines == 2

MaxLyricLines == 2000

DurationSlackMs == 30000

MinCoveragePercent == 15

RECURSIVE MaxOf(_)
MaxOf(seq) ==
    IF Len(seq) = 1 THEN seq[1]
    ELSE LET m == MaxOf(Tail(seq)) IN IF seq[1] >= m THEN seq[1] ELSE m

HtmlMarker == <<"<", "h", "t", "m", "l">>

BodyMarker == <<"<", "b", "o", "d", "y">>

\* _validate_lyrics without the test of the 15 % of the duration
ValidateLyricsAnyCoverage(content, duration_ms) ==
    LET line_count == CountLyricLines(content)
        timestamps == ExtractLrcTimestamps(content)
        last_ts == MaxOf(timestamps)
    IN  IF line_count < MinLyricLines THEN FALSE
        ELSE IF line_count > MaxLyricLines THEN FALSE
        ELSE IF Contains(LowerStr(content), HtmlMarker)
                \/ Contains(LowerStr(content), BodyMarker) THEN FALSE
        ELSE IF duration_ms # NoDuration /\ HasLrcTimestamps(content)
                /\ timestamps # <<>>
             THEN IF last_ts > duration_ms + DurationSlackMs THEN FALSE
                  ELSE TRUE
        ELSE TRUE

\* _validate_lyrics; duration_ms is the request's duration in milliseconds, NoDuration
\* for None (duration_seconds = durationMs / 1000.0, compared here in milliseconds)
ValidateLyrics(content, duration_ms) ==
    LET line_count == CountLyricLines(content)
        timestamps == ExtractLrcTimestamps(content)
        last_ts == MaxOf(timestamps)
    IN  IF line_count < MinLyricLines THEN FALSE
        ELSE IF line_count > MaxLyricLines THEN FALSE
        ELSE IF Contains(LowerStr(content), HtmlMarker)
                \/ Contains(LowerStr(content), BodyMarker) THEN FALSE
        ELSE IF duration_ms # NoDuration /\ HasLrcTimestamps(content)
                /\ timestamps # <<>>
             THEN IF last_ts > duration_ms + DurationSlackMs THEN FALSE
                  ELSE IF last_ts * 100 < duration_ms * MinCoveragePercent THEN FALSE
                  ELSE TRUE
        ELSE TRUE

(***************************************************************************)
(* Text normalisation and fuzzy matching                                   *)
(***************************************************************************)

\* \w of the regular expressions, on the characters of the model
WordChars == Letters \cup Digits \cup {"_"}

\* re.sub(r"[^\w\s]", "", text)
RECURSIVE DropPunctuation(_)
DropPunctuation(s) ==
    IF s = <<>> THEN <<>>
    ELSE (IF Head(s) \in WordChars \cup Whitespace THEN <<Head(s)>> ELSE <<>>)
         \o DropPunctuation(Tail(s))

\* str.split(): the maximal runs of non-whitespace characters
RECURSIVE SplitWordsFrom(_, _)
SplitWordsFrom(s, p) ==
    LET ws == Run(s, p, Whitespace)
        q == p + ws
        n == Run(s, q, {s[i] : i \in 1..Len(s)} \ Whitespace)
    IN  IF q > Len(s) THEN <<>>
        ELSE <<SubSeq(s, q, q + n - 1)>> \o SplitWordsFrom(s, q + n)

SplitWords(s) == SplitWordsFrom(s, 1)

\* " ".join(words)
RECURSIVE JoinWords(_)
JoinWords(words) ==
    IF words = <<>> THEN <<>>
    ELSE IF Len(words) = 1 THEN words[1]
    ELSE words[1] \o <<" ">> \o JoinWords(Tail(words))

(***************************************************************************)
(* Regular expressions of the normalisation helpers.  A pattern is a list   *)
(* of elements, matched greedily with backtracking and without regard to    *)
(* case; a regular expression is a list of alternative patterns.            *)
(***************************************************************************)

\* a character class (negated or not), taken min times or more when many,
\* min to 1 times otherwise
Class(chars, negated, min, many) ==
    [kind |-> "class", chars |-> chars, negated |-> negated, min |-> min,
     many |-> many, word |-> <<>>]

\* a literal word, in lower case
Lit(word) ==
    [kind |-> "lit", chars |-> {}, negated |-> FALSE, min |-> 1, many |-> FALSE,
     word |-> word]

\* (?:word)?
OptLit(word) ==
    [kind |-> "lit", chars |-> {}, negated |-> FALSE, min |-> 0, many |-> FALSE,
     word |-> word]

\* \s*
Ws0 == Class(Whitespace, FALSE, 0, TRUE)

\* \s+
Ws1 == Class(Whitespace, FALSE, 1, TRUE)

\* \.?
OptDot == Class({"."}, FALSE, 0, FALSE)

\* [^c]*
NotStar(c) == Class({c}, TRUE, 0, TRUE)

\* .*
AnyStar == Class({NL}, TRUE, 0, TRUE)

\* \d*
DigitStar == Class(Digits, FALSE, 0, TRUE)

\* a pattern, with a final $ when toEnd
Pattern(atoms, toEnd) == [atoms |-> atoms, toEnd |-> toEnd]

\* $ at position p: the end of s, or the line break that ends s
AtEnd(s, p) == p > Len(s) \/ (p = Len(s) /\ s[p] = NL)

Accepts(atom, c) == c # "" /\ ((LowerChar(c) \in atom.chars) # atom.negated)

RECURSIVE RunOf(_, _, _)
RunOf(atom, s, p) == IF Accepts(atom, At(s, p)) THEN 1 + RunOf(atom, s, p + 1) ELSE 0

\* the position after the match of atoms[i..] at position p of s, 0 when none;
\* a class takes the longest run (Longest, from n down to min) that lets the
\* rest of the pattern match
RECURSIVE MatchEnd(_, _, _, _)
RECURSIVE Longest(_, _, _, _, _, _)
RECURSIVE Shorter(_, _, _, _, _, _, _)
RECURSIVE Without(_, _, _, _, _, _)

Shorter(pat, i, s, p, n, min, end) ==
    IF end # 0 THEN end
    ELSE IF n <= min THEN 0
    ELSE Longest(pat, i, s, p, n - 1, min)

Longest(pat, i, s, p, n, min) ==
    IF n < min THEN 0
    ELSE Shorter(pat, i, s, p, n, min, MatchEnd(pat, i + 1, s, p + n))

Without(pat, i, s, p, optional, end) ==
    IF end # 0 \/ ~optional THEN end ELSE MatchEnd(pat, i + 1, s, p)

MatchEnd(pat, i, s, p) ==
    IF i > Len(pat.atoms) THEN (IF pat.toEnd /\ ~AtEnd(s, p) THEN 0 ELSE p)
    ELSE IF pat.atoms[i].kind = "lit"
         THEN Without(pat, i, s, p, pat.atoms[i].min = 0,
                      IF p + Len(pat.atoms[i].word) - 1 <= Len(s)
                         /\ LowerStr(SubSeq(s, p, p + Len(pat.atoms[i].word) - 1))
                            = pat.atoms[i].word
                      THEN MatchEnd(pat, i + 1, s, p + Len(pat.atoms[i].word))
                      ELSE 0)
    ELSE Longest(pat, i, s, p,
                 IF pat.atoms[i].many THEN RunOf(pat.atoms[i], s, p)
                 ELSE Min(1, RunOf(pat.atoms[i], s, p)),
                 pat.atoms[i].min)

\* the position after the match of the first alternative that matches at p
RECURSIVE MatchEndAny(_, _, _)
RECURSIVE OrElse(_, _, _, _)

OrElse(end, alts, s, p) == IF end # 0 THEN end ELSE MatchEndAny(alts, s, p)

MatchEndAny(alts, s, p) ==
    IF alts = <<>> THEN 0
    ELSE OrElse(MatchEnd(Head(alts), 1, s, p), Tail(alts), s, p)

\* pattern.sub("", s)
RECURSIVE SubFrom(_, _, _)
RECURSIVE SubAfter(_, _, _, _)

SubAfter(alts, s, p, end) ==
    IF end > p THEN SubFrom(alts, s, end) ELSE <<s[p]>> \o SubFrom(alts, s, p + 1)

SubFrom(alts, s, p) ==
    IF p > Len(s) THEN <<>> ELSE SubAfter(alts, s, p, MatchEndAny(alts, s, p))

Sub(alts, s) == SubFrom(alts, s, 1)

\* pattern.split(s)
RECURSIVE SplitByFrom(_, _, _, _)
RECURSIVE SplitAfter(_, _, _, _, _)

SplitAfter(alts, s, p, part, end) ==
    IF end > p THEN <<part>> \o SplitByFrom(alts, s, end, <<>>)
    ELSE SplitByFrom(alts, s, p + 1, Append(part, s[p]))

SplitByFrom(alts, s, p, part) ==
    IF p > Len(s) THEN <<part>>
    ELSE SplitAfter(alts, s, p, part, MatchEndAny(alts, s, p))

SplitBy(alts, s) == SplitByFrom(alts, s, 1, <<>>)

\* \s*\(word[^)]*\) and \s*\[word[^\]]*\]
Parenthetical(word) == <<Pattern(<<Ws0, Lit(word), NotStar(")"), Lit(<<")">>)>>, FALSE)>>

Bracketed(word) == <<Pattern(<<Ws0, Lit(word), NotStar("]"), Lit(<<"]">>)>>, FALSE)>>

\* _TITLE_STRIP_PATTERNS, in the order of the list
TITLE_STRIP_PATTERNS ==
    <<<<Pattern(<<Ws0, Lit(<<"(", "f", "e", "a", "t">>), OptDot, Ws1, NotStar(")"), Lit(<<")">>)>>, FALSE)>>,
      <<Pattern(<<Ws0, Lit(<<"[", "f", "e", "a", "t">>), OptDot, Ws1, NotStar("]"), Lit(<<"]">>)>>, FALSE)>>,
      <<Pattern(<<Ws0, Lit(<<"f", "t">>), OptDot, Ws1, AnyStar>>, TRUE)>>,
      <<Pattern(<<Ws0, Lit(<<"(", "w", "i", "t", "h">>), Ws1, NotStar(")"), Lit(<<")">>)>>, FALSE)>>,
      <<Pattern(<<Ws0, Lit(<<"[", "w", "i", "t", "h">>), Ws1, NotStar("]"), Lit(<<"]">>)>>, FALSE)>>,
      <<Pattern(<<Ws0, Lit(<<"(", "r", "e", "m", "a", "s", "t", "e", "r">>), OptLit(<<"e", "d">>), Ws0, DigitStar, Lit(<<")">>)>>, FALSE)>>,
      <<Pattern(<<Ws0, Lit(<<"[", "r", "e", "m", "a", "s", "t", "e", "r">>), OptLit(<<"e", "d">>), Ws0, DigitStar, Lit(<<"]">>)>>, FALSE)>>,
      <<Pattern(<<Ws0, Lit(<<"-">>), Ws0, Lit(<<"s", "i", "n", "g", "l", "e">>)>>, TRUE)>>,
      Parenthetical(<<"(", "d", "e", "l", "u", "x", "e">>),
      <<Pattern(<<Ws0, Lit(<<"(", "b", "o", "n", "u", "s">>), Ws0, Lit(<<"t", "r", "a", "c", "k", ")">>)>>, FALSE)>>,
      Parenthetical(<<"(", "l", "i", "v", "e">>),
      Bracketed(<<"[", "l", "i", "v", "e">>),
      Parenthetical(<<"(", "a", "c", "o", "u", "s", "t", "i", "c">>),
      Parenthetical(<<"(", "r", "e", "m", "i", "x">>),
      Bracketed(<<"[", "r", "e", "m", "i", "x">>),
      <<Pattern(<<Ws0, Lit(<<"(", "r", "a", "d", "i", "o">>), Ws0, Lit(<<"e", "d", "i", "t", ")">>)>>, FALSE)>>,
      <<Pattern(<<Ws0, Lit(<<"(", "e", "x", "p", "l", "i", "c", "i", "t", ")">>)>>, FALSE)>>,
      <<Pattern(<<Ws0, Lit(<<"(", "c", "l", "e", "a", "n", ")">>)>>, FALSE)>>,
      <<Pattern(<<Ws0, Lit(<<"(", "o", "r", "i", "g", "i", "n", "a", "l">>), Ws0, Lit(<<"m", "i", "x", ")">>)>>, FALSE)>>,
      Parenthetical(<<"(", "e", "x", "t", "e", "n", "d", "e", "d">>)>>

\* \s+connector\.?\s+ of _ARTIST_SPLIT_RE, inside its \s* ... \s*
Connector(word, dotted) ==
    Pattern(<<Ws0, Ws1, Lit(word)>> \o (IF dotted THEN <<OptDot>> ELSE <<>>)
            \o <<Ws1, Ws0>>, FALSE)

\* _ARTIST_SPLIT_RE: \s*(?:,\s*|\s+(?:&|and|feat\.?|ft\.?|vs\.?|x|×)\s+)\s*
ARTIST_SPLIT_RE ==
    <<Pattern(<<Ws0, Lit(<<",">>), Ws0, Ws0>>, FALSE),
      Connector(<<"&">>, FALSE), Connector(<<"a", "n", "d">>, FALSE), Connector(<<"f", "e", "a", "t">>, TRUE),
      Connector(<<"f", "t">>, TRUE), Connector(<<"v", "s">>, TRUE), Connector(<<"x">>, FALSE),
      Connector(<<"×">>, FALSE)>>

\* for pat in _TITLE_STRIP_PATTERNS: text = pat.sub("", text)
RECURSIVE StripTitlePatterns(_, _)
StripTitlePatterns(pats, text) ==
    IF pats = <<>> THEN text
    ELSE StripTitlePatterns(Tail(pats), Sub(Head(pats), text))

\* unicodedata.normalize("NFKD", text) without the combining characters: on the
\* characters of the model, an accented letter becomes its base letter
Unaccented(c) ==
    IF c = "é" THEN "e" ELSE IF c = "É" THEN "E" ELSE IF c = "ö" THEN "o" ELSE c

UnaccentStr(s) == [i \in 1..Len(s) |-> Unaccented(s[i])]

\* _normalize_text
NormalizeText(text) ==
    JoinWords(SplitWords(DropPunctuation(
        StripTitlePatterns(TITLE_STRIP_PATTERNS, StripStr(LowerStr(UnaccentStr(text)))))))

\* _normalize_artist: re.sub(r"^the\s+", "", normalized)
WithoutThe(normalized, ws) ==
    IF Len(normalized) >= 4 /\ SubSeq(normalized, 1, 3) = <<"t", "h", "e">> /\ ws >= 1
    THEN SubSeq(normalized, 4 + ws, Len(normalized))
    ELSE normalized

WithoutLeadingThe(normalized) == WithoutThe(normalized, Run(normalized, 4, Whitespace))

\* _normalize_artist
NormalizeArtist(artist) == WithoutLeadingThe(NormalizeText(artist))

\* [p.strip() for p in parts if p.strip()]
RECURSIVE StrippedParts(_)
StrippedParts(parts) ==
    IF parts = <<>> THEN <<>>
    ELSE (IF StripStr(Head(parts)) # <<>> THEN <<StripStr(Head(parts))>> ELSE <<>>)
         \o StrippedParts(Tail(parts))

\* _split_artists
SplitArtists(artist) == StrippedParts(SplitBy(ARTIST_SPLIT_RE, artist))

\* _strip_all_parentheticals
StripAllParentheticals(title) ==
    StripStr(Sub(<<Pattern(<<Ws0, Lit(<<"[">>), NotStar("]"), Lit(<<"]">>)>>, FALSE)>>,
                 Sub(<<Pattern(<<Ws0, Lit(<<"(">>), NotStar(")"), Lit(<<")">>)>>, FALSE)>>,
                     title)))

\* " - "
Dash == <<" ", "-", " ">>

\* the position of the first occurrence of sub in s, 0 when there is none
FirstIndex(s, sub) ==
    IF Contains(s, sub)
    THEN CHOOSE i \in 1..Len(s) :
             /\ SubSeq(s, i, i + Len(sub) - 1) = sub
             /\ \A j \in 1..(i - 1) : SubSeq(s, j, j + Len(sub) - 1) # sub
    ELSE 0

Variation(a, t) == [artist |-> a, title |-> t]

\* the key of _add: (a.strip().lower(), t.strip().lower())
VariationKey(a, t) == <<LowerStr(StripStr(a)), LowerStr(StripStr(t))>>

\* _add with a key that keeps the case of the letters
AddCaseSensitive(collected, a, t) ==
    LET key == <<StripStr(a), StripStr(t)>>
        seen == {<<collected[i].artist, collected[i].title>> : i \in 1..Len(collected)}
    IN  IF key \notin seen /\ key[1] # <<>> /\ key[2] # <<>>
        THEN Append(collected, Variation(StripStr(a), StripStr(t)))
        ELSE collected

\* _add of _generate_query_variations; collected is its list variations, and
\* seen holds the keys of its members
Add(collected, a, t) ==
    LET key == VariationKey(a, t)
        seen == {VariationKey(collected[i].artist, collected[i].title) :
                    i \in 1..Len(collected)}
    IN  IF key \notin seen /\ key[1] # <<>> /\ key[2] # <<>>
        THEN Append(collected, Variation(StripStr(a), StripStr(t)))
        ELSE collected

\* the pairs that _generate_query_variations hands to _add, in the order of its
\* statements
RulesFor(artist, title, clean_title, bare_title, norm_artist, norm_title, artists, cut) ==
    LET first == StripStr(SubSeq(title, 1, cut - 1))
        last == StripStr(SubSeq(title, cut + Len(Dash), Len(title)))
    IN  <<<<artist, title>>, <<artist, clean_title>>, <<artist, bare_title>>,
          <<norm_artist, title>>, <<norm_artist, clean_title>>,
          <<norm_artist, bare_title>>, <<norm_artist, norm_title>>>>
        \o (IF Len(artists) > 1
            THEN <<<<artists[1], title>>, <<artists[1], clean_title>>,
                   <<artists[1], bare_title>>>>
            ELSE <<>>)
        \o (IF cut > 0 THEN <<<<artist, last>>, <<first, last>>>> ELSE <<>>)

GenerationRules(artist, title) ==
    RulesFor(artist, title,
             StripStr(StripTitlePatterns(TITLE_STRIP_PATTERNS, title)),
             StripAllParentheticals(title),
             NormalizeArtist(artist),
             NormalizeText(title),
             SplitArtists(artist),
             FirstIndex(title, Dash))

RECURSIVE AddAll(_, _)
AddAll(collected, rules) ==
    IF rules = <<>> THEN collected
    ELSE AddAll(Add(collected, Head(rules)[1], Head(rules)[2]), Tail(rules))

\* _generate_query_variations
GenerateQueryVariations(artist, title) == AddAll(<<>>, GenerationRules(artist, title))

WordSet(s) == LET ws == SplitWords(s) IN {ws[i] : i \in 1..Len(ws)}

\* the two tests of _fuzzy_match_artist_title on the sets of words
FuzzyMatchWords(ra, qa, qt_words, rt_words, qa_words, ra_words) ==
    IF qt_words = {} THEN FALSE
    ELSE IF 2 * Cardinality(qt_words \cap rt_words) < Cardinality(qt_words) THEN FALSE
    ELSE IF Cardinality(qa_words \cap ra_words) = 0 /\ ~Contains(ra, qa) /\ ~Contains(qa, ra)
         THEN FALSE
    ELSE TRUE

\* _fuzzy_match_artist_title on the normalized artists and titles
FuzzyMatchNormalized(ra, rt, qa, qt) ==
    FuzzyMatchWords(ra, qa, WordSet(qt), WordSet(rt), WordSet(qa), WordSet(ra))

\* the match with more than half of the words of the title asked for
MajorityOfWords(ra, qa, qt_words, rt_words, qa_words, ra_words) ==
    IF qt_words = {} THEN FALSE
    ELSE IF 2 * Cardinality(qt_words \cap rt_words) <= Cardinality(qt_words) THEN FALSE
    ELSE IF Cardinality(qa_words \cap ra_words) = 0 /\ ~Contains(ra, qa) /\ ~Contains(qa, ra)
         THEN FALSE
    ELSE TRUE

MajorityNormalized(ra, rt, qa, qt) ==
    MajorityOfWords(ra, qa, WordSet(qt), WordSet(rt), WordSet(qa), WordSet(ra))

FuzzyMatchMajority(result_artist, result_title, query_artist, query_title) ==
    MajorityNormalized(NormalizeArtist(result_artist), NormalizeText(result_title),
                       NormalizeArtist(query_artist), NormalizeText(query_title))

\* _fuzzy_match_artist_title
FuzzyMatchArtistTitle(result_artist, result_title, query_artist, query_title) ==
    FuzzyMatchNormalized(NormalizeArtist(result_artist), NormalizeText(result_title),
                         NormalizeArtist(query_artist), NormalizeText(query_title))

(***************************************************************************)
(* Source fetchers.  Each takes what the network answers to its calls      *)
(* (net) and returns the pair the Python function returns, as a record     *)
(* [lyrics, source].                                                       *)
(***************************************************************************)

Fetched(lyrics, source) == [lyrics |-> lyrics, source |-> source]

NotFound == Fetched(NoText, "not_found")

HttpOk == 200

SearchDurationToleranceMs == 15000

\* abs(x)
Abs(x) == IF x < 0 THEN -x ELSE x

\* the loop over the /search results of _fetch_from_lrclib: best is
\* [synced, plain], the values of best_synced and best_plain so far
RECURSIVE LrclibSearchLoop(_, _, _, _, _)
LrclibSearchLoop(results, best, artist, title, duration_ms) ==
    IF results = <<>> THEN best
    ELSE LET entry == Head(results)
             rest == Tail(results)
             skip == LrclibSearchLoop(rest, best, artist, title, duration_ms)
             taken == [synced |-> IF entry.syncedLyrics # NoText /\ best.synced = NoText
                                  THEN entry.syncedLyrics ELSE best.synced,
                       plain |-> IF entry.plainLyrics # NoText /\ best.plain = NoText
                                 THEN entry.plainLyrics ELSE best.plain]
         IN  IF entry.instrumental THEN skip
             ELSE IF ~FuzzyMatchArtistTitle(entry.artistName, entry.trackName, artist, title)
                  THEN skip
             ELSE IF /\ duration_ms # NoDuration
                     /\ entry.duration # 0
                     /\ Abs(entry.duration * 1000 - duration_ms) > SearchDurationToleranceMs
                  THEN skip
             ELSE IF taken.synced # NoText THEN taken
             ELSE LrclibSearchLoop(rest, taken, artist, title, duration_ms)

\* the /search half of _fetch_from_lrclib
LrclibSearch(search, artist, title, duration_ms) ==
    LET best == LrclibSearchLoop(search.results, [synced |-> NoText, plain |-> NoText],
                                 artist, title, duration_ms)
    IN  IF search.raises THEN NotFound
        ELSE IF search.status # HttpOk THEN NotFound
        ELSE IF search.results = <<>> THEN NotFound
        ELSE IF best.synced # NoText THEN Fetched(best.synced, "lrclib-search-synced")
        ELSE IF best.plain # NoText THEN Fetched(best.plain, "lrclib-search-plain")
        ELSE NotFound

\* _fetch_from_lrclib; net is [get, search], the answers to the two calls.
\* album and the duration go into the /get parameters only.
FetchFromLrclib(net, artist, title, album, duration_ms) ==
    IF ~net.get.raises /\ net.get.status = HttpOk /\ net.get.instrumental
    THEN Fetched(NoText, "instrumental")
    ELSE IF ~net.get.raises /\ net.get.status = HttpOk /\ net.get.syncedLyrics # NoText
    THEN Fetched(net.get.syncedLyrics, "lrclib-synced")
    ELSE IF ~net.get.raises /\ net.get.status = HttpOk /\ net.get.plainLyrics # NoText
    THEN Fetched(net.get.plainLyrics, "lrclib-plain")
    ELSE LrclibSearch(net.search, artist, title, duration_ms)

\* _fetch_from_syncedlyrics; net is [raises, lrc], what syncedlyrics.search does
FetchFromSyncedlyrics(net, artist, title) ==
    IF ~net.raises /\ net.lrc # NoText
    THEN Fetched(net.lrc, "syncedlyrics-synced")
    ELSE NotFound

MinQQMusicChars == 20

\* the loop over song_list of _fetch_from_qqmusic: the songmid of the first song
\* that matches and has one, NoText when there is none
RECURSIVE QQMusicSongLoop(_, _, _, _)
QQMusicSongLoop(song_list, artist, title, duration_ms) ==
    IF song_list = <<>> THEN NoText
    ELSE LET song == Head(song_list)
             rest == QQMusicSongLoop(Tail(song_list), artist, title, duration_ms)
         IN  IF ~FuzzyMatchArtistTitle(song.singer, song.songname, artist, title) THEN rest
             ELSE IF /\ duration_ms # NoDuration
                     /\ song.interval # 0
                     /\ Abs(song.interval * 1000 - duration_ms) > SearchDurationToleranceMs
                  THEN rest
             ELSE IF song.songmid # NoText THEN song.songmid
             ELSE rest

\* _fetch_from_qqmusic without the test of the status of the lyric download
FetchFromQQMusicAnyStatus(net, artist, title, duration_ms) ==
    LET songmid == QQMusicSongLoop(net.search.list, artist, title, duration_ms)
        reply == net.lyric
        lrc_content == StripStr(reply.lyric)
    IN  IF net.search.raises THEN NotFound
        ELSE IF net.search.status # HttpOk THEN NotFound
        ELSE IF net.search.list = <<>> THEN NotFound
        ELSE IF songmid = NoText THEN NotFound
        ELSE IF reply.raises THEN NotFound
        ELSE IF reply.retcode # 0 THEN NotFound
        ELSE IF reply.lyric = NoText THEN NotFound
        ELSE IF lrc_content = NoText \/ Len(lrc_content) < MinQQMusicChars THEN NotFound
        ELSE IF HasLrcTimestamps(lrc_content) THEN Fetched(lrc_content, "qqmusic-synced")
        ELSE Fetched(lrc_content, "qqmusic-plain")

\* _fetch_from_qqmusic; net is [search, lyric], the answers to the two calls:
\* search is [raises, status, list], lyric is [raises, status, retcode, lyric],
\* its lyric the base64-decoded payload (raises covers a transport error and a
\* payload that does not parse or decode)
FetchFromQQMusic(net, artist, title, duration_ms) ==
    LET songmid == QQMusicSongLoop(net.search.list, artist, title, duration_ms)
        reply == net.lyric
        lrc_content == StripStr(reply.lyric)
    IN  IF net.search.raises THEN NotFound
        ELSE IF net.search.status # HttpOk THEN NotFound
        ELSE IF net.search.list = <<>> THEN NotFound
        ELSE IF songmid = NoText THEN NotFound
        ELSE IF reply.raises THEN NotFound
        ELSE IF reply.status # HttpOk THEN NotFound
        ELSE IF reply.retcode # 0 THEN NotFound
        ELSE IF reply.lyric = NoText THEN NotFound
        ELSE IF lrc_content = NoText \/ Len(lrc_content) < MinQQMusicChars THEN NotFound
        ELSE IF HasLrcTimestamps(lrc_content) THEN Fetched(lrc_content, "qqmusic-synced")
        ELSE Fetched(lrc_content, "qqmusic-plain")

WEB_SEARCH_MAX_PAGES == 5

WEB_MAX_RESPONSE_BYTES == 524288

MaxUntrustedPages == 3

MinLyricsChars == 50

MinLyricsLines == 3

CodeIndicatorLimit == 2

CodeIndicatorWindow == 500

\* _TRUSTED_LYRICS_DOMAINS
TrustedLyricsDomains ==
    {"lyricstranslate.com", "genius.com", "azlyrics.com", "songlyrics.com",
     "letras.mus.br", "lyrics.com", "altwall.net", "teksty-pesenok.ru",
     "teksti-pesen.com", "pesni.guru", "tekstipesen.com", "amalgama-lab.com",
     "911pesni.pro", "pesni-accordy.ru", "megalyrics.ru"}

\* _CODE_INDICATORS
CodeIndicators ==
    {<<"f", "u", "n", "c", "t", "i", "o", "n", " ">>, <<"v", "a", "r", " ">>,
     <<"c", "o", "n", "s", "t", " ">>, <<"d", "o", "c", "u", "m", "e", "n", "t", ".">>,
     <<"w", "i", "n", "d", "o", "w", ".">>, <<"g", "t", "a", "g", "(">>,
     <<"f", "e", "t", "c", "h", "(">>}

\* the number of lines of text with a non-whitespace character
NonBlankLines(text) ==
    LET ls == SplitLines(text)
    IN  Cardinality({i \in 1..Len(ls) : StripStr(ls[i]) # <<>>})

\* _looks_like_lyrics
LooksLikeLyrics(text) ==
    LET window == SubSeq(text, 1, Min(Len(text), CodeIndicatorWindow))
        code_count == Cardinality({ind \in CodeIndicators : Contains(window, ind)})
    IN  IF text = NoText \/ Len(text) < MinLyricsChars THEN FALSE
        ELSE IF NonBlankLines(text) < MinLyricsLines THEN FALSE
        ELSE IF code_count >= CodeIndicatorLimit THEN FALSE
        ELSE TRUE

\* _extract_lyrics_from_html; blocks holds, per pattern of _LYRICS_TAG_PATTERNS in
\* order, the cleaned text of the block the pattern finds (NoText for none)
RECURSIVE ExtractLyricsFromHtml(_)
ExtractLyricsFromHtml(blocks) ==
    IF blocks = <<>> THEN NoText
    ELSE IF Head(blocks) # NoText /\ LooksLikeLyrics(Head(blocks)) THEN Head(blocks)
    ELSE ExtractLyricsFromHtml(Tail(blocks))

\* the urls of a list that are not in seen, each once, in order
RECURSIVE DedupUrls(_, _)
DedupUrls(urls, seen) ==
    IF urls = <<>> THEN <<>>
    ELSE IF Head(urls).url \in seen THEN DedupUrls(Tail(urls), seen)
    ELSE <<Head(urls)>> \o DedupUrls(Tail(urls), seen \cup {Head(urls).url})

IsTrusted(u) == u.domain \in TrustedLyricsDomains

IsUntrusted(u) == ~IsTrusted(u)

\* the loop over ordered[:WEB_SEARCH_MAX_PAGES] of _fetch_from_web_search
RECURSIVE WebPageLoop(_, _, _)
WebPageLoop(urls, page, duration_ms) ==
    IF urls = <<>> THEN NotFound
    ELSE LET reply == page[Head(urls).url]
             lyrics == ExtractLyricsFromHtml(reply.blocks)
             rest == WebPageLoop(Tail(urls), page, duration_ms)
         IN  IF reply.raises THEN rest
             ELSE IF reply.status # HttpOk THEN rest
             ELSE IF reply.bytes > WEB_MAX_RESPONSE_BYTES THEN rest
             ELSE IF lyrics # NoText /\ ValidateLyrics(lyrics, duration_ms)
                  THEN Fetched(lyrics, "web-" \o Head(urls).domain)
             ELSE rest

\* a network call failed: it raised (timeout, connection error, a payload that
\* does not parse) or was answered with a status other than 200
CallFailed(reply) == reply.raises \/ reply.status # HttpOk

\* _ddg_search; reply is [raises, status, urls], urls being the result links that
\* are not of _SKIP_DOMAINS, each a record [url, domain]
DdgSearch(reply) == IF CallFailed(reply) THEN <<>> ELSE reply.urls

\* ordered[:WEB_SEARCH_MAX_PAGES] of _fetch_from_web_search
WebOrdered(net) ==
    LET all_urls == DedupUrls(DdgSearch(net.found[1]) \o DdgSearch(net.found[2]), {})
        trusted == SelectSeq(all_urls, IsTrusted)
        untrusted == SelectSeq(all_urls, IsUntrusted)
        ordered == trusted \o SubSeq(untrusted, 1, Min(Len(untrusted), MaxUntrustedPages))
    IN  SubSeq(ordered, 1, Min(Len(ordered), WEB_SEARCH_MAX_PAGES))

\* _fetch_from_web_search; net is [found, page]: found holds the answers to the
\* two _ddg_search calls; page maps a url to [raises, status, bytes, blocks]
FetchFromWebSearch(net, artist, title, duration_ms) ==
    WebPageLoop(WebOrdered(net), net.page, duration_ms)

(***************************************************************************)
(* The network calls a fetcher makes for what the network answers, as the  *)
(* list of the answers in the order of the calls                           *)
(***************************************************************************)

\* /get, and /search unless /get returned lyrics or the instrumental flag
LrclibCalls(net) ==
    IF /\ ~CallFailed(net.get)
       /\ (net.get.instrumental \/ net.get.syncedLyrics # NoText
             \/ net.get.plainLyrics # NoText)
    THEN <<net.get>>
    ELSE <<net.get, net.search>>

\* the one call of syncedlyrics.search
SyncedlyricsCalls(net) == <<[raises |-> net.raises, status |-> HttpOk]>>

\* the song search, and the lyric download when a song was matched
QQMusicCalls(net, artist, title, duration_ms) ==
    IF \/ CallFailed(net.search)
       \/ QQMusicSongLoop(net.search.list, artist, title, duration_ms) = NoText
    THEN <<net.search>>
    ELSE <<net.search, net.lyric>>

\* the pages fetched, up to the one the lyrics are returned from
RECURSIVE WebPageCalls(_, _, _)
WebPageCalls(urls, page, duration_ms) ==
    IF urls = <<>> THEN <<>>
    ELSE IF WebPageLoop(<<Head(urls)>>, page, duration_ms) # NotFound
         THEN <<page[Head(urls).url]>>
    ELSE <<page[Head(urls).url]>> \o WebPageCalls(Tail(urls), page, duration_ms)

\* the two searches and the pages fetched
WebSearchCalls(net, duration_ms) ==
    <<net.found[1], net.found[2]>> \o WebPageCalls(WebOrdered(net), net.page, duration_ms)

\* how the calls went: "none" failed, the "last" one made failed, or "some"
\* call before the last one failed and the last one did not
FailureOf(calls) ==
    IF \A i \in 1..Len(calls) : ~CallFailed(calls[i]) THEN "none"
    ELSE IF CallFailed(calls[Len(calls)]) THEN "last"
    ELSE "some"

\* what a fetcher call leaves: the pair it returned and how its calls went
Outcome(got, failure) == [got |-> got, failure |-> failure]

(***************************************************************************)
(* The inputs of the model: lyric texts, requests, and what the network    *)
(* can answer to each fetcher                                              *)
(***************************************************************************)

\* [00:10.00]la la\n[02:50.00]na na\n
SyncedA ==
    <<"[", "0", "0", ":", "1", "0", ".", "0", "0", "]", "l", "a", " ", "l", "a", NL, "[",
      "0", "2", ":", "5", "0", ".", "0", "0", "]", "n", "a", " ", "n", "a", NL>>

\* La la\nNa na
PlainA ==
    <<"L", "a", " ", "l", "a", NL, "N", "a", " ", "n", "a">>

\* la la\nna na\noh oh oh oh
PlainB ==
    <<"l", "a", " ", "l", "a", NL, "n", "a", " ", "n", "a", NL, "o", "h", " ", "o", "h",
      " ", "o", "h", " ", "o", "h">>

\* [00:05.00]hey\n[02:00.00]you
SyncedC ==
    <<"[", "0", "0", ":", "0", "5", ".", "0", "0", "]", "h", "e", "y", NL, "[", "0", "2",
      ":", "0", "0", ".", "0", "0", "]", "y", "o", "u">>

\* [00:10.00]la la\n[04:10.00]na
LateD ==
    <<"[", "0", "0", ":", "1", "0", ".", "0", "0", "]", "l", "a", " ", "l", "a", NL, "[",
      "0", "4", ":", "1", "0", ".", "0", "0", "]", "n", "a">>

\* na na\nla la\nna na
RepeatA ==
    <<"n", "a", " ", "n", "a", NL, "l", "a", " ", "l", "a", NL, "n", "a", " ", "n", "a">>

\* la la\nna na\nhey
FortyP ==
    <<"l", "a", " ", "l", "a", NL, "n", "a", " ", "n", "a", NL, "h", "e", "y">>

\* [00:10.00]la la\n[01:00.00]na na\n[02:00.00]oh\n[02:50.00]you
FortyS ==
    <<"[", "0", "0", ":", "1", "0", ".", "0", "0", "]", "l", "a", " ", "l", "a", NL,
      "[", "0", "1", ":", "0", "0", ".", "0", "0", "]", "n", "a", " ", "n", "a", NL,
      "[", "0", "2", ":", "0", "0", ".", "0", "0", "]", "o", "h", NL,
      "[", "0", "2", ":", "5", "0", ".", "0", "0", "]", "y", "o", "u">>

\* la la
OneLine ==
    <<"l", "a", " ", "l", "a">>

\* oh la la la la la\nna na na na na na\nhey hey hey hey hey
WebW ==
    <<"o", "h", " ", "l", "a", " ", "l", "a", " ", "l", "a", " ", "l", "a", " ", "l",
      "a", NL, "n", "a", " ", "n", "a", " ", "n", "a", " ", "n", "a", " ", "n", "a", " ",
      "n", "a", NL, "h", "e", "y", " ", "h", "e", "y", " ", "h", "e", "y", " ", "h", "e",
      "y", " ", "h", "e", "y">>


MaxVariations == 4

MaxNow == 30

ClockStep == 15

\* The requests of the model: artist, title and the list that
\* _generate_query_variations returns for them (0, 1, 2, ... variations)
QueryCatalogue ==
    <<[artist |-> <<>>,
       title |-> <<"L", "o">>,
       variations |->
           <<>>],
      [artist |-> <<"A", "b">>,
       title |-> <<"L", "o">>,
       variations |->
           <<[artist |-> <<"A", "b">>, title |-> <<"L", "o">>]>>],
      [artist |-> <<"T", "h", "e", " ", "A", "b">>,
       title |-> <<"L", "o">>,
       variations |->
           <<[artist |-> <<"T", "h", "e", " ", "A", "b">>, title |-> <<"L", "o">>],
             [artist |-> <<"a", "b">>, title |-> <<"L", "o">>]>>],
      [artist |-> <<"A", "b", " ", "&", " ", "C", "d">>,
       title |-> <<"L", "o">>,
       variations |->
           <<[artist |-> <<"A", "b", " ", "&", " ", "C", "d">>, title |-> <<"L", "o">>],
             [artist |-> <<"a", "b", " ", "c", "d">>, title |-> <<"L", "o">>],
             [artist |-> <<"A", "b">>, title |-> <<"L", "o">>]>>],
      [artist |-> <<"A", "b">>,
       title |-> <<"L", "o", " ", "-", " ", "M", "i">>,
       variations |->
           <<[artist |-> <<"A", "b">>, title |-> <<"L", "o", " ", "-", " ", "M", "i">>],
             [artist |-> <<"a", "b">>, title |-> <<"l", "o", " ", "m", "i">>],
             [artist |-> <<"A", "b">>, title |-> <<"M", "i">>],
             [artist |-> <<"L", "o">>, title |-> <<"M", "i">>]>>],
      [artist |-> <<"T", "h", "e", " ", "A", "b">>,
       title |-> <<"L", "o", " ", "-", " ", "M", "i">>,
       variations |->
           <<[artist |-> <<"T", "h", "e", " ", "A", "b">>, title |-> <<"L", "o", " ", "-", " ", "M", "i">>],
             [artist |-> <<"a", "b">>, title |-> <<"L", "o", " ", "-", " ", "M", "i">>],
             [artist |-> <<"a", "b">>, title |-> <<"l", "o", " ", "m", "i">>],
             [artist |-> <<"T", "h", "e", " ", "A", "b">>, title |-> <<"M", "i">>],
             [artist |-> <<"L", "o">>, title |-> <<"M", "i">>]>>]>>

Queries == {QueryCatalogue[i] : i \in 1..Len(QueryCatalogue)}

\* durationMs and album of the requests: 180 s and "Al", and for the queries with
\* an even number of variations also a request that gives neither
TrackMs == 180000

AlbumAl == <<"A", "l">>

LyricsRequest(q, durationMs, alb, force) ==
    [artist |-> q.artist, title |-> q.title, durationMs |-> durationMs,
     album |-> alb, force |-> force]

Requests ==
    {LyricsRequest(q, TrackMs, AlbumAl, force) :
        q \in {c \in Queries : Len(c.variations) <= MaxVariations}, force \in BOOLEAN}
    \cup {LyricsRequest(q, NoDuration, NoText, force) :
            q \in {c \in Queries : Len(c.variations) <= MaxVariations
                                    /\ Len(c.variations) % 2 = 0},
            force \in BOOLEAN}

\* _generate_query_variations for the requests of the model
GenerateQueryVariationsOf ==
    [q \in {<<c.artist, c.title>> : c \in Queries} |->
        GenerateQueryVariations(q[1], q[2])]

\* answers to the /get call of the primary lookup
LrclibGet(raises, status, instrumental, syncedLyrics, plainLyrics) ==
    [raises |-> raises, status |-> status, instrumental |-> instrumental,
     syncedLyrics |-> syncedLyrics, plainLyrics |-> plainLyrics]

GetRaises == LrclibGet(TRUE, 0, FALSE, NoText, NoText)

GetMiss == LrclibGet(FALSE, 404, FALSE, NoText, NoText)

GetInstrumental == LrclibGet(FALSE, HttpOk, TRUE, NoText, NoText)

GetHits ==
    {GetInstrumental,
     LrclibGet(FALSE, HttpOk, FALSE, SyncedA, PlainA),
     LrclibGet(FALSE, HttpOk, FALSE, NoText, PlainB),
     LrclibGet(FALSE, HttpOk, FALSE, LateD, NoText)}

\* entries of a /search answer
LrclibEntry(instrumental, artistName, trackName, duration, syncedLyrics, plainLyrics) ==
    [instrumental |-> instrumental, artistName |-> artistName, trackName |-> trackName,
     duration |-> duration, syncedLyrics |-> syncedLyrics, plainLyrics |-> plainLyrics]

NameAb == <<"A", "b">>

NameLoMi == <<"L", "o", " ", "M", "i">>

NameZz == <<"Z", "z">>

SearchRaises == [raises |-> TRUE, status |-> 0, results |-> <<>>]

SearchEmpty == [raises |-> FALSE, status |-> HttpOk, results |-> <<>>]

\* an instrumental entry, an entry of another artist, an entry of another length,
\* a matching entry with plain lyrics only, a matching entry with synced lyrics
SearchMixed ==
    [raises |-> FALSE, status |-> HttpOk,
     results |-> <<LrclibEntry(TRUE, NameAb, NameLoMi, 180, NoText, NoText),
                   LrclibEntry(FALSE, NameZz, NameLoMi, 180, SyncedA, NoText),
                   LrclibEntry(FALSE, NameAb, NameLoMi, 400, SyncedA, NoText),
                   LrclibEntry(FALSE, NameAb, NameLoMi, 0, NoText, PlainA),
                   LrclibEntry(FALSE, NameAb, NameLoMi, 185, SyncedC, PlainB)>>]

SearchPlain ==
    [raises |-> FALSE, status |-> HttpOk,
     results |-> <<LrclibEntry(FALSE, NameAb, NameLoMi, 180, NoText, PlainA)>>]

LrclibNets ==
    {[get |-> g, search |-> SearchRaises] : g \in GetHits \cup {GetRaises}}
    \cup {[get |-> GetMiss, search |-> r] : r \in {SearchEmpty, SearchMixed, SearchPlain}}
    \cup {[get |-> GetRaises, search |-> SearchPlain]}

\* what syncedlyrics.search does
SyncedlyricsNets ==
    {[raises |-> TRUE, lrc |-> NoText]}
    \cup {[raises |-> FALSE, lrc |-> t] : t \in {NoText, SyncedA, SyncedC, OneLine, RepeatA}}

\* answers to the two calls of the secondary lookup
QQSong(singer, songname, interval, songmid) ==
    [singer |-> singer, songname |-> songname, interval |-> interval, songmid |-> songmid]

QQSearchRaises == [raises |-> TRUE, status |-> 0, list |-> <<>>]

QQSearchHit ==
    [raises |-> FALSE, status |-> HttpOk,
     list |-> <<QQSong(NameZz, NameLoMi, 180, <<"m", "1">>),
                QQSong(NameAb, NameLoMi, 180, NoText),
                QQSong(NameAb, NameLoMi, 182, <<"m", "2">>)>>]

QQLyric(raises, status, retcode, lyric) ==
    [raises |-> raises, status |-> status, retcode |-> retcode, lyric |-> lyric]

QQMusicNets ==
    {[search |-> QQSearchRaises, lyric |-> QQLyric(TRUE, 0, 0, NoText)]}
    \cup {[search |-> QQSearchHit, lyric |-> l] :
            l \in {QQLyric(TRUE, 0, 0, NoText),
                   QQLyric(FALSE, 503, 0, PlainB),
                   QQLyric(FALSE, HttpOk, 0 - 1, PlainB),
                   QQLyric(FALSE, HttpOk, 0, PlainB \o <<NL>>),
                   QQLyric(FALSE, HttpOk, 0, SyncedC),
                   QQLyric(FALSE, HttpOk, 0, PlainA)}}

\* what the search engine and the pages answer to the web-search fallback
WebPage(raises, status, bytes, blocks) ==
    [raises |-> raises, status |-> status, bytes |-> bytes, blocks |-> blocks]

UrlBlog == [url |-> "https://blog.example/lo", domain |-> "blog.example"]

UrlGenius == [url |-> "https://genius.com/lo", domain |-> "genius.com"]

WebPages ==
    [u \in {UrlBlog.url, UrlGenius.url} |->
        IF u = UrlBlog.url THEN WebPage(FALSE, HttpOk, 4096, <<NoText, WebW>>)
        ELSE WebPage(FALSE, HttpOk, 4096, <<OneLine, WebW>>)]

DeadPages ==
    [u \in {UrlBlog.url, UrlGenius.url} |->
        IF u = UrlBlog.url THEN WebPage(FALSE, 404, 0, <<>>)
        ELSE WebPage(TRUE, 0, 0, <<>>)]

\* answers to a _ddg_search call
DdgReply(raises, status, urls) == [raises |-> raises, status |-> status, urls |-> urls]

DdgRaises == DdgReply(TRUE, 0, <<>>)

DdgFound(urls) == DdgReply(FALSE, HttpOk, urls)

\* the trusted page does not answer, the other one does
HalfDeadPages ==
    [u \in {UrlBlog.url, UrlGenius.url} |->
        IF u = UrlBlog.url THEN WebPage(FALSE, HttpOk, 4096, <<NoText, WebW>>)
        ELSE WebPage(TRUE, 0, 0, <<>>)]

WebSearchNets ==
    {[found |-> <<DdgRaises, DdgReply(FALSE, 503, <<>>)>>, page |-> WebPages],
     [found |-> <<DdgFound(<<>>), DdgFound(<<>>)>>, page |-> WebPages],
     [found |-> <<DdgFound(<<UrlBlog, UrlGenius>>), DdgFound(<<UrlGenius>>)>>,
      page |-> WebPages],
     [found |-> <<DdgRaises, DdgFound(<<UrlBlog>>)>>, page |-> WebPages],
     [found |-> <<DdgFound(<<UrlGenius, UrlBlog>>), DdgRaises>>, page |-> HalfDeadPages],
     [found |-> <<DdgFound(<<UrlBlog, UrlGenius>>), DdgFound(<<>>)>>, page |-> DeadPages]}

(***************************************************************************)
(* The values of the fetchers and of the text functions on the inputs of    *)
(* the model, each computed once: the orchestrator reads them here          *)
(***************************************************************************)

ModelVariations ==
    UNION {{q.variations[i] : i \in 1..Len(q.variations)} : q \in Queries}

Albums == {NoText, AlbumAl}

Durations == {NoDuration, TrackMs}

\* what _fetch_from_lrclib can return for a variation, an album and a duration
FetchFromLrclibOf ==
    [v \in ModelVariations, alb \in Albums, d \in Durations |->
        {Outcome(FetchFromLrclib(net, v.artist, v.title, alb, d),
                 FailureOf(LrclibCalls(net))) : net \in LrclibNets}]

\* what _fetch_from_syncedlyrics can return for a variation
FetchFromSyncedlyricsOf ==
    [v \in ModelVariations |->
        {Outcome(FetchFromSyncedlyrics(net, v.artist, v.title),
                 FailureOf(SyncedlyricsCalls(net))) : net \in SyncedlyricsNets}]

\* what _fetch_from_qqmusic can return for a variation and a duration
FetchFromQQMusicOf ==
    [v \in ModelVariations, d \in Durations |->
        {Outcome(FetchFromQQMusic(net, v.artist, v.title, d),
                 FailureOf(QQMusicCalls(net, v.artist, v.title, d))) : net \in QQMusicNets}]

\* what _fetch_from_web_search can return for a variation and a duration
FetchFromWebSearchOf ==
    [v \in ModelVariations, d \in Durations |->
        {Outcome(FetchFromWebSearch(net, v.artist, v.title, d),
                 FailureOf(WebSearchCalls(net, d))) : net \in WebSearchNets}]

\* the texts the fetchers of the model return
FetchedTexts ==
    {NoText, SyncedA, PlainA, PlainB, SyncedC, LateD, OneLine, RepeatA, WebW,
     PlainB \o <<NL>>}

\* the texts of the candidate lists the selector is called alone with
SelectorTexts == {FortyP, FortyS, SyncedC, PlainB, LateD, WebW}

\* those texts, and what is read back of them from the file
LyricTexts == FetchedTexts \cup {StripStr(t) : t \in FetchedTexts} \cup SelectorTexts

\* _validate_lyrics on the texts of the model
ValidateLyricsOf == [t \in LyricTexts, d \in Durations |-> ValidateLyrics(t, d)]

\* _strip_lrc_to_plain on the texts of the model
StripLrcToPlainOf == [t \in LyricTexts |-> StripLrcToPlain(t)]

\* _has_lrc_timestamps on the texts of the model
HasLrcTimestampsOf == [t \in LyricTexts |-> HasLrcTimestamps(t)]

\* _lyrics_similarity on the texts of the model
LyricsSimilarityOf == [a \in LyricTexts, b \in LyricTexts |-> LyricsSimilarity(a, b)]

(***************************************************************************)
(* Orchestrator helpers and candidate selector                             *)
(***************************************************************************)

CandidateQuota == 2

AggregatorVariations == 3

SecondaryVariations == 2

WebSearchVariations == 2

SimilarityThresholdPercent == 35

NEGATIVE_CACHE_MAX_AGE_DAYS == 30

NEGATIVE_CACHE_MARKER ==
    <<"[", "n", "o", " ", "l", "y", "r", "i", "c", "s", " ", "f", "o", "u", "n", "d", "]">>

\* hash(str): equal strings have equal hashes; distinct strings of the model are
\* taken to have distinct hashes
HashOf(plain) == plain

\* _have_enough with the quota off by one
HaveEnoughOfThree(candidates) == Len(candidates) > CandidateQuota

\* _search_all_sources._have_enough
HaveEnough(candidates) == Len(candidates) >= CandidateQuota

\* _try_add without the test of the tag "instrumental"
TryAddUntagged(lyrics, source, candidates, seen_plain_hashes, duration_ms) ==
    LET same == [is_instrumental |-> FALSE, candidates |-> candidates,
                 seen_plain_hashes |-> seen_plain_hashes]
        plain_hash == HashOf(StripLrcToPlainOf[lyrics])
    IN  IF lyrics = NoText THEN same
        ELSE IF ~ValidateLyricsOf[lyrics, duration_ms] THEN same
        ELSE IF plain_hash \in seen_plain_hashes THEN same
        ELSE [is_instrumental |-> FALSE,
              candidates |-> Append(candidates,
                                    [lyrics |-> lyrics, source |-> source,
                                     synced |-> HasLrcTimestampsOf[lyrics]]),
              seen_plain_hashes |-> seen_plain_hashes \cup {plain_hash}]

\* _try_add without the test of seen_plain_hashes
TryAddUndeduplicated(lyrics, source, candidates, seen_plain_hashes, duration_ms) ==
    LET same == [is_instrumental |-> FALSE, candidates |-> candidates,
                 seen_plain_hashes |-> seen_plain_hashes]
        plain_hash == HashOf(StripLrcToPlainOf[lyrics])
    IN  IF source = "instrumental" THEN [same EXCEPT !.is_instrumental = TRUE]
        ELSE IF lyrics = NoText THEN same
        ELSE IF ~ValidateLyricsOf[lyrics, duration_ms] THEN same
        ELSE [is_instrumental |-> FALSE,
              candidates |-> Append(candidates,
                                    [lyrics |-> lyrics, source |-> source,
                                     synced |-> HasLrcTimestampsOf[lyrics]]),
              seen_plain_hashes |-> seen_plain_hashes \cup {plain_hash}]

\* _try_add without the call of _validate_lyrics
TryAddUnvalidated(lyrics, source, candidates, seen_plain_hashes, duration_ms) ==
    LET same == [is_instrumental |-> FALSE, candidates |-> candidates,
                 seen_plain_hashes |-> seen_plain_hashes]
        plain_hash == HashOf(StripLrcToPlainOf[lyrics])
    IN  IF source = "instrumental" THEN [same EXCEPT !.is_instrumental = TRUE]
        ELSE IF lyrics = NoText THEN same
        ELSE IF plain_hash \in seen_plain_hashes THEN same
        ELSE [is_instrumental |-> FALSE,
              candidates |-> Append(candidates,
                                    [lyrics |-> lyrics, source |-> source,
                                     synced |-> HasLrcTimestampsOf[lyrics]]),
              seen_plain_hashes |-> seen_plain_hashes \cup {plain_hash}]

\* _search_all_sources._try_add: what it returns and what it leaves in
\* candidates and seen_plain_hashes
TryAdd(lyrics, source, candidates, seen_plain_hashes, duration_ms) ==
    LET same == [is_instrumental |-> FALSE, candidates |-> candidates,
                 seen_plain_hashes |-> seen_plain_hashes]
        plain_hash == HashOf(StripLrcToPlainOf[lyrics])
    IN  IF source = "instrumental" THEN [same EXCEPT !.is_instrumental = TRUE]
        ELSE IF lyrics = NoText THEN same
        ELSE IF ~ValidateLyricsOf[lyrics, duration_ms] THEN same
        ELSE IF plain_hash \in seen_plain_hashes THEN same
        ELSE [is_instrumental |-> FALSE,
              candidates |-> Append(candidates,
                                    [lyrics |-> lyrics, source |-> source,
                                     synced |-> HasLrcTimestampsOf[lyrics]]),
              seen_plain_hashes |-> seen_plain_hashes \cup {plain_hash}]

\* the pairs <<i, j>>, i < j, of 1..n in the order of the two nested loops
RECURSIVE PairsFrom(_, _, _)
PairsFrom(i, j, n) ==
    IF i >= n THEN <<>>
    ELSE IF j > n THEN PairsFrom(i + 1, i + 2, n)
    ELSE <<<<i, j>>>> \o PairsFrom(i, j + 1, n)

\* sim >= 0.5 for the fraction sim
CrossValidatedAtHalf(sim) == sim[1] * 2 >= sim[2]

\* sim >= 0.35 for the fraction sim
CrossValidated(sim) == sim[1] * 100 >= SimilarityThresholdPercent * sim[2]

\* the chosen candidate with its text trimmed
ChosenTrimmed(c) == [lyrics |-> StripStr(c.lyrics), source |-> c.source]

\* the (lyrics, source) that _select_best_candidate returns for the candidate c
Chosen(c) == [lyrics |-> c.lyrics, source |-> c.source]

NoChoice == [lyrics |-> NoText, source |-> "none"]

\* sim >= 0.35 for the pair p of candidates
IsCross(candidates, p) ==
    CrossValidated(LyricsSimilarityOf[candidates[p[1]].lyrics, candidates[p[2]].lyrics])

\* synced_a or synced_b for the pair p of candidates
HasSynced(candidates, p) == candidates[p[1]].synced \/ candidates[p[2]].synced

\* the pairs with sim >= 0.35, in the order of the two nested loops
CrossPairs(candidates) ==
    SelectSeq(PairsFrom(1, 2, Len(candidates)), LAMBDA p : IsCross(candidates, p))

\* those of them that have a synced member
SyncedCrossPairs(candidates) ==
    SelectSeq(CrossPairs(candidates), LAMBDA p : HasSynced(candidates, p))

\* no candidate taken for synced
NoSyncedCandidates(candidates) == <<>>

\* the synced candidates
SyncedCandidates(candidates) == SelectSeq(candidates, LAMBDA c : c.synced)

\* the selection with verified_synced = (lyrics_b, source_a) for a synced
\* second member of the pair
SelectFromMixed(candidates, cross, crossSynced, synced) ==
    IF candidates = <<>> THEN NoChoice
    ELSE IF Len(candidates) >= 2 /\ crossSynced # <<>>
         THEN IF candidates[crossSynced[1][1]].synced
              THEN Chosen(candidates[crossSynced[1][1]])
              ELSE [lyrics |-> candidates[crossSynced[1][2]].lyrics,
                    source |-> candidates[crossSynced[1][1]].source]
    ELSE IF Len(candidates) >= 2 /\ cross # <<>>
         THEN Chosen(candidates[cross[1][1]])
    ELSE IF synced # <<>> THEN Chosen(synced[1])
    ELSE Chosen(candidates[1])

\* what _select_best_candidate returns: verified_synced is taken from the first
\* pair of crossSynced, verified_plain from the first pair of cross
SelectFrom(candidates, cross, crossSynced, synced) ==
    IF candidates = <<>> THEN NoChoice
    ELSE IF Len(candidates) >= 2 /\ crossSynced # <<>>
         THEN IF candidates[crossSynced[1][1]].synced
              THEN Chosen(candidates[crossSynced[1][1]])
              ELSE Chosen(candidates[crossSynced[1][2]])
    ELSE IF Len(candidates) >= 2 /\ cross # <<>>
         THEN Chosen(candidates[cross[1][1]])
    ELSE IF synced # <<>> THEN Chosen(synced[1])
    ELSE Chosen(candidates[1])

\* _select_best_candidate; NoChoice is the None it returns for no candidate
SelectBestCandidate(candidates) ==
    SelectFrom(candidates, CrossPairs(candidates), SyncedCrossPairs(candidates),
               SyncedCandidates(candidates))

\* the file at outputPath: exists, its content, its modification time in days
NoFile == [exists |-> FALSE, content |-> NoText, mtime |-> 0]

\* write_text that creates the file and leaves it empty
WrittenFileEmpty(content, time) == [exists |-> TRUE, content |-> NoText, mtime |-> time]

WrittenFile(content, time) == [exists |-> TRUE, content |-> content, mtime |-> time]

\* _is_negative_cache_valid with age <= 30 for age < 30
IsNegativeCacheValidInclusive(f, time) ==
    IF ~f.exists THEN FALSE
    ELSE IF StripStr(f.content) # NEGATIVE_CACHE_MARKER THEN FALSE
    ELSE time - f.mtime <= NEGATIVE_CACHE_MAX_AGE_DAYS

\* _is_negative_cache_valid, at time time (days)
IsNegativeCacheValid(f, time) ==
    IF ~f.exists THEN FALSE
    ELSE IF StripStr(f.content) # NEGATIVE_CACHE_MARKER THEN FALSE
    ELSE time - f.mtime < NEGATIVE_CACHE_MAX_AGE_DAYS

\* _write_negative_cache that writes nothing
WriteNegativeCacheNowhere(f, time) == f

\* _write_negative_cache that keeps the modification time of a file that exists
WriteNegativeCacheKeepingAge(f, time) ==
    IF f.exists THEN WrittenFile(NEGATIVE_CACHE_MARKER, f.mtime)
    ELSE WrittenFile(NEGATIVE_CACHE_MARKER, time)

\* _write_negative_cache
WriteNegativeCache(f, time) == WrittenFile(NEGATIVE_CACHE_MARKER, time)

(***************************************************************************)
(* fetch_lyrics as a state machine: one request at a time on one           *)
(* outputPath.  A request starts (FetchLyricsStart), and unless it is      *)
(* answered from the file it runs _search_all_sources, one fetcher call    *)
(* per step, and ends in FetchLyricsFinish.                                *)
(***************************************************************************)

VARIABLES
    file,               \* the file at outputPath
    now,                \* time.time(), in days
    pc,                 \* "idle", "search" (inside _search_all_sources), "searched"
    request,            \* the LyricsRequest being served, or served last
    unlinked,           \* whether that request deleted the file (force mode)
    variations,         \* _generate_query_variations(artist, title)
    tier,               \* the loop of _search_all_sources that runs: 1..4
    idx,                \* the variation the loop is at
    album,              \* the local album of _search_all_sources
    candidates,         \* the local candidates
    seen_plain_hashes,  \* the local seen_plain_hashes
    ret,                \* what _search_all_sources returned
    response,           \* the LyricsResponse of the request served last
    nFetch,             \* fetcher calls made for the request
    lastFetch,          \* the last fetcher call: tier, variation, album passed,
                        \* what it returned and how its network calls went
    input,              \* the arguments of a function of the module called alone
    output,             \* what that call returned
    disk,               \* the file system under outputPath when requests overlap
    threads,            \* the overlapping calls, one per thread
    job_progress,       \* the separation container's job_progress dictionary
    job_timestamps,     \* the separation container's job_timestamps dictionary
    clock,              \* time.time() of the separation container, in seconds
    cleaner             \* the periodic_cleanup thread of the separation container

vars == <<file, now, pc, request, unlinked, variations, tier, idx, album, candidates,
          seen_plain_hashes, ret, response, nFetch, lastFetch, input, output, disk,
          threads, job_progress, job_timestamps, clock, cleaner>>

jobVars == <<job_progress, job_timestamps, clock, cleaner>>

callVars == <<input, output, disk, threads, jobVars>>

searchVars == <<variations, tier, idx, album, candidates, seen_plain_hashes, ret,
                nFetch, lastFetch>>

serviceVars == <<file, now, pc, request, unlinked, response, searchVars>>

LyricsResponse(success, source, synced, lyrics) ==
    [success |-> success, source |-> source, synced |-> synced, lyrics |-> lyrics]

NoResponse == LyricsResponse(FALSE, "pending", FALSE, NoText)

NoRequest ==
    [artist |-> NoText, title |-> NoText, durationMs |-> NoDuration,
     album |-> NoText, force |-> FALSE]

NoFetch ==
    [tier |-> 0, variation |-> 0, album |-> NoText, instrumental |-> FALSE,
     lyrics |-> NoText, source |-> "none", failure |-> "none"]

NoReturn == [candidates |-> <<>>, is_instrumental |-> FALSE]

Returned == 5

\* variations[:limit] of the loop of a tier
\* every tier running over all the variations
TierLimitAll(t, n) == n

\* the number of variations the loop of tier t runs over, of n variations
TierLimit(t, n) ==
    CASE t = 1 -> n
      [] t = 2 -> Min(n, AggregatorVariations)
      [] t = 3 -> Min(n, SecondaryVariations)
      [] t = 4 -> Min(n, WebSearchVariations)

\* every loop entered whatever the candidates
TierEnteredAlways(t, cands) == TRUE

\* the web search entered like the tiers before it, when the quota is not met
TierEnteredUnderQuota(t, cands) == IF t = 1 THEN TRUE ELSE ~HaveEnough(cands)

\* the condition under which the loop of a tier is entered
TierEntered(t, cands) ==
    CASE t = 1 -> TRUE
      [] t = 2 -> ~HaveEnough(cands)
      [] t = 3 -> ~HaveEnough(cands)
      [] t = 4 -> cands = <<>>

\* the condition under which the loop of a tier is left by break
TierBreaks(t, cands) == IF t = 4 THEN cands # <<>> ELSE HaveEnough(cands)

\* the first loop from tier t on that runs at least once; Returned when none does
RECURSIVE NextTier(_, _, _)
NextTier(t, cands, n) ==
    IF t >= Returned THEN Returned
    ELSE IF TierEntered(t, cands) /\ TierLimit(t, n) >= 1 THEN t
    ELSE NextTier(t + 1, cands, n)

NoInput == [function |-> "none"]

NoOutput == [returned |-> FALSE]

\* the service with no request served yet
\* no thread pool: one request at a time, on the file of the variable file
NoDisk == [bound |-> 0]

\* The cleanup thread asleep between two rounds.
NoCleaner == [pc |-> "sleep", now |-> 0, size |-> 0, visited |-> {}, expired |-> <<>>]

\* The separation container just started: no job recorded yet.
NoJobs ==
    /\ job_progress = <<>>
    /\ job_timestamps = <<>>
    /\ clock = 0
    /\ cleaner = NoCleaner

NoOverlap == disk = NoDisk /\ threads = <<>> /\ NoJobs

ServiceInit ==
    /\ file = NoFile
    /\ now = 0
    /\ pc = "idle"
    /\ request = NoRequest
    /\ unlinked = FALSE
    /\ variations = <<>>
    /\ tier = 0
    /\ idx = 0
    /\ album = NoText
    /\ candidates = <<>>
    /\ seen_plain_hashes = {}
    /\ ret = NoReturn
    /\ response = NoResponse
    /\ nFetch = 0
    /\ lastFetch = NoFetch

Init ==
    /\ ServiceInit
    /\ NoOverlap
    /\ input = NoInput
    /\ output = NoOutput

\* time passes between requests
Tick ==
    /\ pc = "idle"
    /\ \E d \in {ClockStep, NEGATIVE_CACHE_MAX_AGE_DAYS} :
        /\ now + d <= MaxNow
        /\ now' = now + d
    /\ UNCHANGED <<file, pc, request, unlinked, response, searchVars, callVars>>

\* force mode that leaves the file in place
AfterForceKept(f, force) == f

\* the file after "if request.force and output_path.exists(): unlink"
AfterForce(f, force) == IF force /\ f.exists THEN NoFile ELSE f

\* fetch_lyrics up to the call of _search_all_sources, for the request req
StartRequest(req) ==
    LET vs == GenerateQueryVariationsOf[<<req.artist, req.title>>]
        kept == AfterForce(file, req.force)
        content == StripStr(kept.content)
        first == NextTier(1, <<>>, Len(vs))
    IN  /\ request' = req
        /\ unlinked' = (kept # file)
        /\ file' = kept
        /\ candidates' = <<>>
        /\ seen_plain_hashes' = {}
        /\ ret' = NoReturn
        /\ nFetch' = 0
        /\ lastFetch' = NoFetch
        /\ IF ~req.force /\ kept.exists /\ Len(kept.content) > 0
              /\ content # NEGATIVE_CACHE_MARKER
           THEN /\ response' = LyricsResponse(TRUE, "cached", HasLrcTimestampsOf[content],
                                              content)
                /\ pc' = "idle"
                /\ variations' = <<>>
                /\ tier' = 0
                /\ idx' = 0
                /\ album' = NoText
           ELSE IF ~req.force /\ IsNegativeCacheValid(kept, now)
           THEN /\ response' = LyricsResponse(FALSE, "negative-cache", FALSE, NoText)
                /\ pc' = "idle"
                /\ variations' = <<>>
                /\ tier' = 0
                /\ idx' = 0
                /\ album' = NoText
           ELSE /\ response' = NoResponse
                /\ variations' = vs
                /\ album' = req.album
                /\ tier' = first
                /\ idx' = IF first = Returned THEN 0 ELSE 1
                /\ pc' = IF first = Returned THEN "searched" ELSE "search"

FetchLyricsStart ==
    /\ pc = "idle"
    /\ \E req \in Requests : StartRequest(req)
    /\ UNCHANGED <<now, callVars>>

\* the tier and the variation the search goes on with when the loop body has
\* run for variations[idx] and left the candidates cands: [tier, idx]
\* the control of the loops with every later tier starting at its second variation
OnwardFromSecond(cands) ==
    IF TierBreaks(tier, cands) \/ idx >= TierLimit(tier, Len(variations))
    THEN [tier |-> NextTier(tier + 1, cands, Len(variations)),
          idx |-> Min(2, Len(variations))]
    ELSE [tier |-> tier, idx |-> idx + 1]

\* the control of the loops that stays at the variation it is at
OnwardSameVariation(cands) ==
    IF TierBreaks(tier, cands)
    THEN [tier |-> NextTier(tier + 1, cands, Len(variations)), idx |-> 1]
    ELSE [tier |-> tier, idx |-> idx]

\* where the loops stand after a pass that left the candidates cands: the next
\* variation of the tier, or the first variation of the next tier that runs
Onward(cands) ==
    IF TierBreaks(tier, cands) \/ idx >= TierLimit(tier, Len(variations))
    THEN [tier |-> NextTier(tier + 1, cands, Len(variations)), idx |-> 1]
    ELSE [tier |-> tier, idx |-> idx + 1]

\* the loops going on with "album = None" left out
ContinueKeepingAlbum(added, on) ==
    /\ album' = album
    /\ tier' = on.tier
    /\ idx' = IF on.tier = Returned THEN 0 ELSE on.idx
    /\ pc' = IF on.tier = Returned THEN "searched" ELSE "search"
    /\ ret' = IF on.tier = Returned
              THEN [candidates |-> added.candidates, is_instrumental |-> FALSE]
              ELSE ret

\* the loop goes on, or the search returns the candidates
Continue(added, on) ==
    /\ album' = IF tier = 1 THEN NoText ELSE album
    /\ tier' = on.tier
    /\ idx' = IF on.tier = Returned THEN 0 ELSE on.idx
    /\ pc' = IF on.tier = Returned THEN "searched" ELSE "search"
    /\ ret' = IF on.tier = Returned
              THEN [candidates |-> added.candidates, is_instrumental |-> FALSE]
              ELSE ret

\* the body of the loop of the running tier without
\* "if is_instrumental: return [], True"
AfterTryAddWithoutAbort(added, got, failure, passedAlbum) ==
    /\ nFetch' = nFetch + 1
    /\ lastFetch' = [tier |-> tier, variation |-> idx, album |-> passedAlbum,
                     instrumental |-> got.source = "instrumental",
                     lyrics |-> got.lyrics, source |-> got.source, failure |-> failure]
    /\ candidates' = added.candidates
    /\ seen_plain_hashes' = added.seen_plain_hashes
    /\ Continue(added, Onward(added.candidates))
    /\ UNCHANGED <<file, now, request, unlinked, variations, response, callVars>>

\* the body of the loop of the running tier after the fetcher returned got and
\* _try_add returned added
AfterTryAdd(added, got, failure, passedAlbum) ==
    /\ nFetch' = nFetch + 1
    /\ lastFetch' = [tier |-> tier, variation |-> idx, album |-> passedAlbum,
                     instrumental |-> got.source = "instrumental",
                     lyrics |-> got.lyrics, source |-> got.source, failure |-> failure]
    /\ candidates' = added.candidates
    /\ seen_plain_hashes' = added.seen_plain_hashes
    /\ IF tier = 1 /\ added.is_instrumental
       THEN /\ ret' = [candidates |-> <<>>, is_instrumental |-> TRUE]
            /\ pc' = "searched"
            /\ UNCHANGED <<tier, idx, album>>
       ELSE Continue(added, Onward(added.candidates))
    /\ UNCHANGED <<file, now, request, unlinked, variations, response, callVars>>

\* one pass through the body of the loop of the running tier, fetched being the
\* outcome of the fetcher call for variations[idx]
LoopStep(fetched, passedAlbum) ==
    AfterTryAdd(TryAdd(fetched.got.lyrics, fetched.got.source, candidates,
                       seen_plain_hashes, request.durationMs),
                fetched.got, fetched.failure, passedAlbum)

\* tier 1: the primary lookup over all variations
FetchLrclibStep ==
    /\ pc = "search"
    /\ tier = 1
    /\ \E fetched \in FetchFromLrclibOf[variations[idx], album, request.durationMs] :
        LoopStep(fetched, album)

\* tier 2: the aggregator over variations[:3]
FetchSyncedlyricsStep ==
    /\ pc = "search"
    /\ tier = 2
    /\ \E fetched \in FetchFromSyncedlyricsOf[variations[idx]] :
        LoopStep(fetched, NoText)

\* tier 3: the secondary lookup over variations[:2]
FetchQQMusicStep ==
    /\ pc = "search"
    /\ tier = 3
    /\ \E fetched \in FetchFromQQMusicOf[variations[idx], request.durationMs] :
        LoopStep(fetched, NoText)

\* tier 4: the web search over variations[:2]
FetchWebSearchStep ==
    /\ pc = "search"
    /\ tier = 4
    /\ \E fetched \in FetchFromWebSearchOf[variations[idx], request.durationMs] :
        LoopStep(fetched, NoText)

\* fetch_lyrics from "if not result" on, result being what the selector returned
WriteChosen(result) ==
    IF result = NoChoice
    THEN /\ file' = WriteNegativeCache(file, now)
         /\ response' = LyricsResponse(FALSE, "exhausted", FALSE, NoText)
    ELSE /\ file' = WrittenFile(result.lyrics, now)
         /\ response' = LyricsResponse(TRUE, result.source,
                                       HasLrcTimestampsOf[result.lyrics], result.lyrics)

\* fetch_lyrics after _search_all_sources returned
FetchLyricsFinish ==
    /\ pc = "searched"
    /\ pc' = "idle"
    /\ IF ret.is_instrumental
       THEN /\ file' = WriteNegativeCache(file, now)
            /\ response' = LyricsResponse(FALSE, "instrumental", FALSE, NoText)
       ELSE IF ret.candidates = <<>>
       THEN /\ file' = WriteNegativeCache(file, now)
            /\ response' = LyricsResponse(FALSE, "exhausted", FALSE, NoText)
       ELSE WriteChosen(SelectBestCandidate(ret.candidates))
    /\ UNCHANGED <<now, request, unlinked, searchVars, callVars>>

Next ==
    \/ Tick
    \/ FetchLyricsStart
    \/ FetchLrclibStep
    \/ FetchSyncedlyricsStep
    \/ FetchQQMusicStep
    \/ FetchWebSearchStep
    \/ FetchLyricsFinish

Spec == Init /\ [][Next]_vars

(***************************************************************************)
(* The same service on a filesystem whose writes can fail: mkdir or          *)
(* write_text raises OSError before a byte is written, and leaves the file   *)
(* as it was or, when the file had been opened for writing, empty            *)
(***************************************************************************)

\* the answer of a request whose handler raised: no LyricsResponse, HTTP 500
Raised == LyricsResponse(FALSE, "raised", FALSE, NoText)

\* the file after a write that failed at time time
FailedWrite(f, time) == {f, WrittenFile(NoText, time)}

\* a failed write of the marker that raises out of fetch_lyrics
AfterFailedCacheWriteRaised(answer) == Raised

\* _write_negative_cache when the write fails: the exception is logged, and
\* fetch_lyrics returns the answer it was about to return
AfterFailedCacheWrite(answer) == answer

\* a failed write of the lyrics that is swallowed
AfterFailedLyricsWriteSwallowed(result) ==
    LyricsResponse(TRUE, result.source, HasLrcTimestampsOf[result.lyrics], result.lyrics)

\* fetch_lyrics when mkdir or write_text of the chosen lyrics fails: nothing
\* catches the exception
AfterFailedLyricsWrite(result) == Raised

\* fetch_lyrics from "if not result" on when the write fails
WriteChosenFsError(result) ==
    IF result = NoChoice
    THEN response' = AfterFailedCacheWrite(LyricsResponse(FALSE, "exhausted", FALSE, NoText))
    ELSE response' = AfterFailedLyricsWrite(result)

\* fetch_lyrics after _search_all_sources returned, when the write it makes fails
FetchLyricsFinishFsError ==
    /\ pc = "searched"
    /\ pc' = "idle"
    /\ file' \in FailedWrite(file, now)
    /\ IF ret.is_instrumental
       THEN response' = AfterFailedCacheWrite(LyricsResponse(FALSE, "instrumental", FALSE,
                                                             NoText))
       ELSE IF ret.candidates = <<>>
       THEN response' = AfterFailedCacheWrite(LyricsResponse(FALSE, "exhausted", FALSE,
                                                             NoText))
       ELSE WriteChosenFsError(SelectBestCandidate(ret.candidates))
    /\ UNCHANGED <<now, request, unlinked, searchVars, callVars>>

FaultNext ==
    \/ Next
    \/ FetchLyricsFinishFsError

FaultSpec == Init /\ [][FaultNext]_vars

\* a fetcher call returns
FetchReturns ==
    FetchLrclibStep \/ FetchSyncedlyricsStep \/ FetchQQMusicStep \/ FetchWebSearchStep

\* the end of fetch_lyrics, with or without a failing write
FetchLyricsEnds == FetchLyricsFinish \/ FetchLyricsFinishFsError

\* FaultSpec when every fetcher call returns and the request thread goes on
FaultLiveSpec == FaultSpec /\ WF_vars(FetchReturns) /\ WF_vars(FetchLyricsEnds)

(***************************************************************************)
(* The functions of the module called alone: input holds the name of the    *)
(* function and its arguments, output what it returned                      *)
(***************************************************************************)

\* the function returns value
Returns(function, value) ==
    /\ input.function = function
    /\ ~output.returned
    /\ output' = [returned |-> TRUE, value |-> value]
    /\ UNCHANGED <<input, serviceVars, disk, threads, jobVars>>

MaxCandidates == 3

\* a candidate as _try_add appends it
Candidate(lyrics, source) ==
    [lyrics |-> lyrics, source |-> source, synced |-> HasLrcTimestampsOf[lyrics]]

\* one candidate per text of SelectorTexts, under the tag of a fetcher
CandidatePool ==
    {Candidate(FortyP, "lrclib-plain"), Candidate(FortyS, "syncedlyrics-synced"),
     Candidate(SyncedC, "qqmusic-synced"), Candidate(PlainB, "qqmusic-plain"),
     Candidate(LateD, "lrclib-search-synced"), Candidate(WebW, "web-genius.com")}

\* the lists of at most n members of pool, no member twice
RECURSIVE ListsOf(_, _)
ListsOf(pool, n) ==
    IF n = 0 THEN {<<>>}
    ELSE LET shorter == ListsOf(pool, n - 1)
         IN  shorter \cup UNION {{Append(l, c) : c \in pool \ SetOf(l)} :
                                    l \in {x \in shorter : Len(x) = n - 1}}

SelectInit ==
    /\ ServiceInit
    /\ NoOverlap
    /\ input \in {[function |-> "_select_best_candidate", candidates |-> l] :
                    l \in ListsOf(CandidatePool, MaxCandidates)}
    /\ output = NoOutput

\* _select_best_candidate(candidates)
SelectBestCandidateCall ==
    Returns("_select_best_candidate", SelectBestCandidate(input.candidates))

SelectSpec == SelectInit /\ [][SelectBestCandidateCall]_vars

(***************************************************************************)
(* _validate_lyrics called alone, with the texts of at most MaxLines lines  *)
(* of LinePool and a duration of Durations                                  *)
(***************************************************************************)

\* [00:20.00]la
LineAt20 ==
    <<"[", "0", "0", ":", "2", "0", ".", "0", "0", "]", "l", "a">>

\* [00:26.99]la
LineAt26_99 ==
    <<"[", "0", "0", ":", "2", "6", ".", "9", "9", "]", "l", "a">>

\* [00:27.00]na
LineAt27 ==
    <<"[", "0", "0", ":", "2", "7", ".", "0", "0", "]", "n", "a">>

\* [02:50.00]na
LineAt170 ==
    <<"[", "0", "2", ":", "5", "0", ".", "0", "0", "]", "n", "a">>

\* [03:30.00]oh
LineAt210 ==
    <<"[", "0", "3", ":", "3", "0", ".", "0", "0", "]", "o", "h">>

\* [03:30.01]oh
LineAt210_01 ==
    <<"[", "0", "3", ":", "3", "0", ".", "0", "1", "]", "o", "h">>

\* [04:10.00]oh
LineAt250 ==
    <<"[", "0", "4", ":", "1", "0", ".", "0", "0", "]", "o", "h">>

\* hey
LinePlain ==
    <<"h", "e", "y">>

\*  [04:10.00]yo
LineIndented ==
    <<" ", "[", "0", "4", ":", "1", "0", ".", "0", "0", "]", "y", "o">>

\* [00:10.5]la
LineShortFraction ==
    <<"[", "0", "0", ":", "1", "0", ".", "5", "]", "l", "a">>

\* <HTML>
LineHtml ==
    <<"<", "H", "T", "M", "L", ">">>

LinePool ==
    {LineAt20, LineAt26_99, LineAt27, LineAt170, LineAt210, LineAt210_01,
     LineAt250, LinePlain, LineIndented, LineShortFraction, LineHtml}

MaxLines == 2

ValidateInit ==
    /\ ServiceInit
    /\ NoOverlap
    /\ input \in {[function |-> "_validate_lyrics", content |-> JoinLines(l),
                    duration_ms |-> d] :
                    l \in ListsOf(LinePool, MaxLines), d \in Durations}
    /\ output = NoOutput

\* _validate_lyrics(content, duration_seconds, artist, title)
ValidateLyricsCall ==
    Returns("_validate_lyrics", ValidateLyrics(input.content, input.duration_ms))

ValidateSpec == ValidateInit /\ [][ValidateLyricsCall]_vars

(***************************************************************************)
(* _lyrics_similarity called alone, on two texts of at most MaxLines lines  *)
(* of SungLines                                                             *)
(***************************************************************************)

\* [00:10.00]la la
SungTimed ==
    <<"[", "0", "0", ":", "1", "0", ".", "0", "0", "]", "l", "a", " ", "l", "a">>

\* LA LA 
SungLoud ==
    <<"L", "A", " ", "L", "A", " ">>

\* na na
SungNa ==
    <<"n", "a", " ", "n", "a">>

\* [01:00]oh
SungOh ==
    <<"[", "0", "1", ":", "0", "0", "]", "o", "h">>

\* [ar:x]
MetaLine ==
    <<"[", "a", "r", ":", "x", "]">>

\* a blank line
BlankLine == <<>>

SungLines == {SungTimed, SungLoud, SungNa, SungOh, MetaLine, BlankLine}

SungTexts == {JoinLines(l) : l \in ListsOf(SungLines, MaxLines)}

SimilarityInit ==
    /\ ServiceInit
    /\ NoOverlap
    /\ input \in {[function |-> "_lyrics_similarity", a |-> a, b |-> b] :
                    a \in SungTexts, b \in SungTexts}
    /\ output = NoOutput

\* _lyrics_similarity(a, b)
LyricsSimilarityCall ==
    Returns("_lyrics_similarity", LyricsSimilarity(input.a, input.b))

SimilaritySpec == SimilarityInit /\ [][LyricsSimilarityCall]_vars

(***************************************************************************)
(* _strip_lrc_to_plain called alone, on the texts made of at most MaxPieces *)
(* pieces of TagPieces                                                      *)
(***************************************************************************)

\* [00:
OpenTag ==
    <<"[", "0", "0", ":">>

\* [00:10.00]
FullTag ==
    <<"[", "0", "0", ":", "1", "0", ".", "0", "0", "]">>

\* 10.00]
CloseTag ==
    <<"1", "0", ".", "0", "0", "]">>

\* la
Word ==
    <<"l", "a">>

\* [00:10.5]
ShortFractionTag ==
    <<"[", "0", "0", ":", "1", "0", ".", "5", "]">>

\* [00:10.1234]
LongFractionTag ==
    <<"[", "0", "0", ":", "1", "0", ".", "1", "2", "3", "4", "]">>

\* [01:20] 
BareTag ==
    <<"[", "0", "1", ":", "2", "0", "]", " ">>

\* a line break
LineBreak == <<NL>>

TagPieces ==
    {OpenTag, FullTag, CloseTag, Word,
     ShortFractionTag, LongFractionTag, BareTag, LineBreak}

MaxPieces == 4

\* "".join(pieces)
RECURSIVE JoinPieces(_)
JoinPieces(pieces) ==
    IF pieces = <<>> THEN <<>> ELSE Head(pieces) \o JoinPieces(Tail(pieces))

StripInit ==
    /\ ServiceInit
    /\ NoOverlap
    /\ input \in {[function |-> "_strip_lrc_to_plain", content |-> JoinPieces(l)] :
                    l \in ListsOf(TagPieces, MaxPieces)}
    /\ output = NoOutput

\* _strip_lrc_to_plain(content)
StripLrcToPlainCall ==
    Returns("_strip_lrc_to_plain", StripLrcToPlain(input.content))

StripSpec == StripInit /\ [][StripLrcToPlainCall]_vars

(***************************************************************************)
(* _has_lrc_timestamps and _extract_lrc_timestamps called alone, on the     *)
(* texts of at most MaxLines lines of LinePool                              *)
(***************************************************************************)

TimestampInit ==
    /\ ServiceInit
    /\ NoOverlap
    /\ input \in {[function |-> f, content |-> JoinLines(l)] :
                    f \in {"_has_lrc_timestamps", "_extract_lrc_timestamps"},
                    l \in ListsOf(LinePool, MaxLines)}
    /\ output = NoOutput

\* _has_lrc_timestamps(content)
HasLrcTimestampsCall ==
    Returns("_has_lrc_timestamps", HasLrcTimestamps(input.content))

\* _extract_lrc_timestamps(lrc_content)
ExtractLrcTimestampsCall ==
    Returns("_extract_lrc_timestamps", ExtractLrcTimestamps(input.content))

TimestampNext == HasLrcTimestampsCall \/ ExtractLrcTimestampsCall

TimestampSpec == TimestampInit /\ [][TimestampNext]_vars

(***************************************************************************)
(* _generate_query_variations called alone, with an artist of QueryArtists  *)
(* and a title of QueryTitles                                               *)
(***************************************************************************)

\* " "
ArtistBlank ==
    <<" ">>

\* "Ab"
ArtistAb ==
    <<"A", "b">>

\* " Ab "
ArtistPadded ==
    <<" ", "A", "b", " ">>

\* "The Ab"
ArtistTheAb ==
    <<"T", "h", "e", " ", "A", "b">>

\* "ab"
ArtistLower ==
    <<"a", "b">>

\* "Ab & Cd"
ArtistDuo ==
    <<"A", "b", " ", "&", " ", "C", "d">>

\* "Ab, Cd feat. Ef"
ArtistTrio ==
    <<"A", "b", ",", " ", "C", "d", " ", "f", "e", "a", "t", ".", " ", "E", "f">>

\* "Éb"
ArtistAccent ==
    <<"É", "b">>

QueryArtists ==
    {NoText, ArtistBlank, ArtistAb, ArtistPadded, ArtistTheAb,
     ArtistLower, ArtistDuo, ArtistTrio, ArtistAccent}

\* "  "
TitleBlank ==
    <<" ", " ">>

\* "Lo"
TitleLo ==
    <<"L", "o">>

\* "Lo "
TitlePadded ==
    <<"L", "o", " ">>

\* "lo"
TitleLower ==
    <<"l", "o">>

\* "Lo - Mi"
TitleDash ==
    <<"L", "o", " ", "-", " ", "M", "i">>

\* " - Mi"
TitleHalfDash ==
    <<" ", "-", " ", "M", "i">>

\* "Lo (Live)"
TitleLive ==
    <<"L", "o", " ", "(", "L", "i", "v", "e", ")">>

\* "Lo (feat. Cd) [x]"
TitleFeat ==
    <<"L", "o", " ", "(", "f", "e", "a", "t", ".", " ", "C", "d", ")", " ", "[", "x",
      "]">>

\* "Lo ft. Cd"
TitleFt ==
    <<"L", "o", " ", "f", "t", ".", " ", "C", "d">>

\* "Lo Mi (Remastered 2009)"
TitleRemaster ==
    <<"L", "o", " ", "M", "i", " ", "(", "R", "e", "m", "a", "s", "t", "e", "r", "e",
      "d", " ", "2", "0", "0", "9", ")">>

\* "Lo, Mi!"
TitlePunct ==
    <<"L", "o", ",", " ", "M", "i", "!">>

QueryTitles ==
    {NoText, TitleBlank, TitleLo, TitlePadded, TitleLower, TitleDash,
     TitleHalfDash, TitleLive, TitleFeat, TitleFt, TitleRemaster, TitlePunct}

VariationsInit ==
    /\ ServiceInit
    /\ NoOverlap
    /\ input \in {[function |-> "_generate_query_variations", artist |-> a, title |-> t] :
                    a \in QueryArtists, t \in QueryTitles}
    /\ output = NoOutput

\* _generate_query_variations(artist, title)
GenerateQueryVariationsCall ==
    Returns("_generate_query_variations",
            GenerateQueryVariations(input.artist, input.title))

VariationsSpec == VariationsInit /\ [][GenerateQueryVariationsCall]_vars

(***************************************************************************)
(* Overlapping requests for one outputPath.  fetch_lyrics is a plain def,   *)
(* so the server runs each call on a thread of its pool, with no lock       *)
(* around the file.  A thread takes one step per system call on the path.   *)
(* The path is bound to an inode or to none; write_text opens the file      *)
(* (creating or truncating it) and then writes at offset 0 of the inode it  *)
(* opened.  Threads 1 and 2 overlap; thread 3 is a request that follows     *)
(* when both have finished.                                                 *)
(***************************************************************************)

Overlapping == {1, 2}

Follower == 3

\* the inode of the file that exists before the requests
OldInode == 4

Inodes == 1..OldInode

\* what _search_all_sources and _select_best_candidate can give a request:
\* nothing, or the chosen lyrics and their source
SearchResults ==
    {[lyrics |-> NoText, source |-> "exhausted"],
     [lyrics |-> SyncedA, source |-> "lrclib-synced"],
     [lyrics |-> PlainB, source |-> "syncedlyrics"]}

NoWrite == [by |-> 0, data |-> NoText]

\* a disk whose path is bound to OldInode with the given content, or to nothing
DiskWith(inode, content) ==
    [bound |-> inode,
     content |-> [i \in Inodes |-> IF i = inode THEN content ELSE NoText],
     lastWrite |-> NoWrite]

Thread(force) ==
    [pc |-> "begin", force |-> force, fd |-> 0, data |-> NoText,
     source |-> "none", answer |-> NoResponse]

OverlapInit ==
    /\ ServiceInit
    /\ input = NoInput
    /\ output = NoOutput
    /\ disk \in {DiskWith(0, NoText), DiskWith(OldInode, SyncedC),
                 DiskWith(OldInode, NEGATIVE_CACHE_MARKER)}
    /\ threads \in {<<Thread(f1), Thread(f2), Thread(FALSE)>> : f1, f2 \in BOOLEAN}
    /\ NoJobs

\* the thread t may take a step: the follower waits for the two others
Runs(t) ==
    /\ threads[t].pc # "done"
    /\ t = Follower => \A o \in Overlapping : threads[o].pc = "done"

Goto(t, pc_) == threads' = [threads EXCEPT ![t].pc = pc_]

Answer(t, resp) == threads' = [threads EXCEPT ![t].pc = "done", ![t].answer = resp]

\* path.exists()
Exists == disk.bound # 0

\* path.read_text(), for an existing file
ReadText == disk.content[disk.bound]

\* what a write of data at offset 0 leaves of a file that held old
Overwritten(old, data) ==
    data \o SubSeq(old, Len(data) + 1, Len(old))

\* "if request.force and output_path.exists(): unlink", or the exists() of
\* "if not request.force and output_path.exists() and ..."
OverlapBegin(t) ==
    /\ Runs(t)
    /\ threads[t].pc = "begin"
    /\ IF threads[t].force
       THEN /\ disk' = [disk EXCEPT !.bound = 0]
            /\ Goto(t, "search")
       ELSE /\ Goto(t, IF Exists THEN "stat" ELSE "negative")
            /\ UNCHANGED disk
    /\ UNCHANGED <<input, output, serviceVars, jobVars>>

\* output_path.stat().st_size > 0; raises when the file is gone
OverlapStat(t) ==
    /\ Runs(t)
    /\ threads[t].pc = "stat"
    /\ IF ~Exists THEN Answer(t, Raised)
       ELSE Goto(t, IF ReadText # NoText THEN "read" ELSE "negative")
    /\ UNCHANGED <<input, output, serviceVars, disk, jobVars>>

\* output_path.read_text().strip() and the answer "cached"; raises when the file
\* is gone
OverlapRead(t) ==
    /\ Runs(t)
    /\ threads[t].pc = "read"
    /\ IF ~Exists THEN Answer(t, Raised)
       ELSE IF StripStr(ReadText) # NEGATIVE_CACHE_MARKER
            THEN Answer(t, LyricsResponse(TRUE, "cached",
                                          HasLrcTimestamps(StripStr(ReadText)),
                                          StripStr(ReadText)))
       ELSE Goto(t, "negative")
    /\ UNCHANGED <<input, output, serviceVars, disk, jobVars>>

\* _is_negative_cache_valid, for a marker written at the time of the requests
OverlapNegativeCache(t) ==
    /\ Runs(t)
    /\ threads[t].pc = "negative"
    /\ IF Exists /\ StripStr(ReadText) = NEGATIVE_CACHE_MARKER
       THEN Answer(t, LyricsResponse(FALSE, "negative-cache", FALSE, NoText))
       ELSE Goto(t, "search")
    /\ UNCHANGED <<input, output, serviceVars, disk, jobVars>>

\* _search_all_sources and _select_best_candidate: the text to write
OverlapSearch(t) ==
    /\ Runs(t)
    /\ threads[t].pc = "search"
    /\ \E result \in SearchResults :
           threads' = [threads EXCEPT
                          ![t].pc = "open",
                          ![t].source = result.source,
                          ![t].data = IF result.lyrics = NoText
                                      THEN NEGATIVE_CACHE_MARKER
                                      ELSE result.lyrics]
    /\ UNCHANGED <<input, output, serviceVars, disk, jobVars>>

\* write_text, first half: open(path, "w") creates the file or truncates it
OverlapOpen(t) ==
    /\ Runs(t)
    /\ threads[t].pc = "open"
    /\ LET inode == IF Exists THEN disk.bound ELSE t
       IN  /\ disk' = [disk EXCEPT !.bound = inode, !.content[inode] = NoText]
           /\ threads' = [threads EXCEPT ![t].pc = "write", ![t].fd = inode]
    /\ UNCHANGED <<input, output, serviceVars, jobVars>>

\* write_text, second half: the text goes to offset 0 of the opened inode; then
\* the response of fetch_lyrics
OverlapWrite(t) ==
    /\ Runs(t)
    /\ threads[t].pc = "write"
    /\ disk' = [disk EXCEPT
                   !.content[threads[t].fd] =
                       Overwritten(disk.content[threads[t].fd], threads[t].data),
                   !.lastWrite = [by |-> t, data |-> threads[t].data]]
    /\ Answer(t, IF threads[t].data = NEGATIVE_CACHE_MARKER
                 THEN LyricsResponse(FALSE, threads[t].source, FALSE, NoText)
                 ELSE LyricsResponse(TRUE, threads[t].source,
                                     HasLrcTimestamps(threads[t].data), threads[t].data))
    /\ UNCHANGED <<input, output, serviceVars, jobVars>>

OverlapNext ==
    \E t \in Overlapping \cup {Follower} :
        \/ OverlapBegin(t)
        \/ OverlapStat(t)
        \/ OverlapRead(t)
        \/ OverlapNegativeCache(t)
        \/ OverlapSearch(t)
        \/ OverlapOpen(t)
        \/ OverlapWrite(t)

OverlapSpec == OverlapInit /\ [][OverlapNext]_vars

(***************************************************************************)
(* The claims                                                              *)
(***************************************************************************)

\* a step in which fetch_lyrics is entered: the service is idle and the step is
\* not the clock's
IsStart == pc = "idle" /\ now' = now

InstrumentalReturn == [candidates |-> <<>>, is_instrumental |-> TRUE]

NegativeCacheFile(f) == f.exists /\ StripStr(f.content) = NEGATIVE_CACHE_MARKER

AgeOf(f) == now - f.mtime

\* C1: as soon as a tier-1 fetch returns the tag "instrumental", the search
\* returns the instrumental outcome with an empty candidate list, whatever was
\* admitted before, and from then on the request makes no fetch: its next step
\* is the answer "instrumental"
C1_InstrumentalAbortsSearch ==
    [][/\ (pc = "search" /\ tier = 1 /\ nFetch' = nFetch + 1 /\ lastFetch'.instrumental)
            => (pc' = "searched" /\ ret' = InstrumentalReturn)
       /\ (pc = "searched" /\ ret.is_instrumental)
            => (nFetch' = nFetch /\ pc' = "idle" /\ response'.source = "instrumental")]_vars

\* C1: the search has returned instrumental from a later variation of tier 1
\* while candidates of earlier variations had been admitted
C1_Witness ==
    /\ pc = "searched"
    /\ ret = InstrumentalReturn
    /\ candidates # <<>>
    /\ lastFetch.tier = 1
    /\ lastFetch.variation >= 2

C3_NegativeCacheWrittenAndUsed ==
    [][/\ (pc = "searched" /\ (ret.is_instrumental \/ ret.candidates = <<>>))
            => /\ file' = WrittenFile(NEGATIVE_CACHE_MARKER, now)
               /\ response' = LyricsResponse(FALSE,
                                             IF ret.is_instrumental THEN "instrumental"
                                             ELSE "exhausted",
                                             FALSE, NoText)
       /\ (/\ IsStart
           /\ response.source \in {"instrumental", "exhausted"}
           /\ ~request'.force
           /\ AgeOf(file) < NEGATIVE_CACHE_MAX_AGE_DAYS)
            => /\ response' = LyricsResponse(FALSE, "negative-cache", FALSE, NoText)
               /\ pc' = "idle"
               /\ nFetch' = 0
               /\ file' = file]_vars

\* C3: a request answered "negative-cache" from a marker written earlier
C3_Witness ==
    /\ pc = "idle"
    /\ response.source = "negative-cache"
    /\ NegativeCacheFile(file)
    /\ AgeOf(file) > 0
    /\ nFetch = 0

\* C4: after a request that returned success:true, a force=false request
\* returns "cached" with the same lyrics, makes no fetch and leaves the file
\* unchanged
C4_Idempotent ==
    [][(IsStart /\ response.success /\ ~request'.force)
            => /\ response'.source = "cached"
               /\ response'.lyrics = response.lyrics
               /\ pc' = "idle"
               /\ nFetch' = 0
               /\ file' = file]_vars

\* C5 as stated: a force=false request that finds a marker file 30 days old or
\* older, or a file whose content is not the sentinel, is not answered
\* "negative-cache" and runs the search
C5_AsStated ==
    [][(/\ IsStart
        /\ ~request'.force
        /\ file.exists
        /\ (AgeOf(file) >= NEGATIVE_CACHE_MAX_AGE_DAYS
            \/ file.content # NEGATIVE_CACHE_MARKER))
            => (response'.source # "negative-cache" /\ pc' # "idle")]_vars

\* C5: a request is answered "negative-cache" only with force=false and a
\* marker file younger than 30 days (so never from a file whose content is not
\* the sentinel); a force=false request that finds a marker file 30 days old or
\* older is not answered "negative-cache" and runs the search
C5_NegativeCacheExpires ==
    [][IsStart
        => /\ response'.source = "negative-cache"
                => /\ ~request'.force
                   /\ NegativeCacheFile(file)
                   /\ AgeOf(file) < NEGATIVE_CACHE_MAX_AGE_DAYS
           /\ (/\ ~request'.force
               /\ NegativeCacheFile(file)
               /\ AgeOf(file) >= NEGATIVE_CACHE_MAX_AGE_DAYS)
                => (response'.source # "negative-cache" /\ pc' # "idle")]_vars

\* C5: the search runs for a force=false request although the marker file is
\* there, 30 days old
C5_Witness ==
    /\ pc # "idle"
    /\ ~request.force
    /\ NegativeCacheFile(file)
    /\ AgeOf(file) >= NEGATIVE_CACHE_MAX_AGE_DAYS

\* C6: a force=true request leaves no file at outputPath when it enters the
\* search, which it always does, and is never answered "cached" or
\* "negative-cache"
C6_ForceAlwaysSearches ==
    [][/\ (IsStart /\ request'.force)
            => /\ unlinked' = file.exists
               /\ ~file'.exists
               /\ pc' # "idle"
               /\ nFetch' = 0
               /\ response' = NoResponse
       /\ request'.force => response'.source \notin {"cached", "negative-cache"}]_vars

\* C6: a force=true request that deleted the file it found has been answered
\* from a search
C6_Witness ==
    /\ pc = "idle"
    /\ request.force
    /\ unlinked
    /\ nFetch >= 1
    /\ response.source \notin {"pending", "cached", "negative-cache"}

\* C7: a force=false request that finds a non-empty file whose content is not
\* the sentinel is answered success:true, "cached", with the file's content as
\* lyrics, without a fetch and without a change of the file
C7_CachedReturnsFileContent ==
    [][(/\ IsStart
        /\ ~request'.force
        /\ file.exists
        /\ Len(file.content) > 0
        /\ file.content # NEGATIVE_CACHE_MARKER)
            => /\ response'.success
               /\ response'.source = "cached"
               /\ response'.lyrics = file.content
               /\ pc' = "idle"
               /\ nFetch' = 0
               /\ file' = file]_vars

\* C8: after a fresh success the file holds exactly the returned lyrics, the
\* returned text and source are those of one of the candidates the search
\* returned, the text passes validation, and synced says whether the text
\* carries timestamps
C8_FreshSuccessPersisted ==
    (pc = "idle" /\ response.success /\ response.source # "cached")
        => /\ file.exists
           /\ file.content = response.lyrics
           /\ \E i \in 1..Len(ret.candidates) :
                /\ ret.candidates[i].lyrics = response.lyrics
                /\ ret.candidates[i].source = response.source
           /\ ValidateLyrics(response.lyrics, request.durationMs)
           /\ response.synced = HasLrcTimestamps(response.lyrics)

\* C8: a fresh success chosen among two candidates, the answer being a text
\* that ends in a newline
C8_Witness ==
    /\ pc = "idle"
    /\ response.success
    /\ response.source # "cached"
    /\ Len(ret.candidates) = 2
    /\ response.lyrics # StripStr(response.lyrics)

\* C9: the search never holds more than 2 candidates, hands at most 2 to the
\* selector, and with 2 candidates it is over: no fetcher call follows
C9_StopsAtTwoCandidates ==
    /\ Len(candidates) <= CandidateQuota
    /\ Len(ret.candidates) <= CandidateQuota
    /\ Len(candidates) >= CandidateQuota => pc # "search"

\* C9: the search ended in tier 1 with 2 candidates and variations left over
C9_Witness ==
    /\ pc = "searched"
    /\ Len(candidates) = CandidateQuota
    /\ lastFetch.tier = 1
    /\ lastFetch.variation < Len(variations)

\* the provider behind a source tag
ProviderOf(source) ==
    IF source \in {"lrclib-synced", "lrclib-plain", "lrclib-search-synced",
                   "lrclib-search-plain"}
    THEN "lrclib"
    ELSE IF source \in {"qqmusic-synced", "qqmusic-plain"} THEN "qqmusic"
    ELSE source

\* C10: whenever the search holds 2 candidates, they come from two different
\* providers
C10_IndependentlySourced ==
    Len(candidates) >= CandidateQuota
        => ProviderOf(candidates[1].source) # ProviderOf(candidates[2].source)

\* C11: every candidate the search holds or has returned passes
\* _validate_lyrics against the request's duration, a fetched text that fails
\* it is not among the candidates, and the selector rejects nothing: a request
\* whose search returned candidates is answered with the text of one of them
C11_CandidatesValidated ==
    /\ \A i \in 1..Len(candidates) :
            ValidateLyricsOf[candidates[i].lyrics, request.durationMs]
    /\ \A i \in 1..Len(ret.candidates) :
            ValidateLyricsOf[ret.candidates[i].lyrics, request.durationMs]
    /\ (lastFetch.lyrics # NoText
            /\ ~ValidateLyricsOf[lastFetch.lyrics, request.durationMs])
        => \A i \in 1..Len(candidates) : candidates[i].lyrics # lastFetch.lyrics
    /\ (pc = "idle" /\ ret.candidates # <<>>)
        => /\ response.success
           /\ \E i \in 1..Len(ret.candidates) :
                    ret.candidates[i].lyrics = response.lyrics

\* C11: a fetcher returned a text that fails validation, and the search, which
\* holds a candidate, did not admit it
C11_Witness ==
    /\ lastFetch.lyrics # NoText
    /\ ~ValidateLyrics(lastFetch.lyrics, request.durationMs)
    /\ candidates # <<>>
    /\ pc = "search"

\* the plain text _try_add hashes for the candidate c
PlainOf(c) == StripLrcToPlainOf[c.lyrics]

\* C12 as stated: no two candidates the search holds have the same set of
\* plain lines
C12_AsStated ==
    \A i, j \in 1..Len(candidates) :
        i < j => LineSet(PlainOf(candidates[i])) # LineSet(PlainOf(candidates[j]))

\* C12: no two candidates the search holds have the same plain text (the
\* timestamp-stripped, lowercased lines in order); seen_plain_hashes holds the
\* plain texts of the candidates; and a fetched text that passes validation
\* has its plain text among them, whether it was admitted or collapsed
C12_DedupByPlainText ==
    /\ \A i, j \in 1..Len(candidates) :
            i < j => PlainOf(candidates[i]) # PlainOf(candidates[j])
    /\ seen_plain_hashes = {HashOf(PlainOf(candidates[i])) : i \in 1..Len(candidates)}
    /\ (lastFetch.lyrics # NoText
            /\ ValidateLyricsOf[lastFetch.lyrics, request.durationMs])
        => \E i \in 1..Len(candidates) :
                PlainOf(candidates[i]) = StripLrcToPlainOf[lastFetch.lyrics]

\* C12: a fetched text that passes validation was not admitted: it differs
\* from the one candidate, but has the same plain text
C12_Witness ==
    /\ Len(candidates) = 1
    /\ lastFetch.lyrics # NoText
    /\ ValidateLyricsOf[lastFetch.lyrics, request.durationMs]
    /\ lastFetch.lyrics # candidates[1].lyrics
    /\ StripLrcToPlainOf[lastFetch.lyrics] = PlainOf(candidates[1])

\* _select_best_candidate has returned
SelectCalled == input.function = "_select_best_candidate" /\ output.returned

\* the (lyrics, source) of candidate i of the list the selector was called with
Picked(i) ==
    [lyrics |-> input.candidates[i].lyrics, source |-> input.candidates[i].source]

\* candidates i and j of that list, i before j, reach similarity 0.35
Verified(i, j) ==
    /\ i \in 1..Len(input.candidates)
    /\ j \in 1..Len(input.candidates)
    /\ i < j
    /\ LyricsSimilarity(input.candidates[i].lyrics, input.candidates[j].lyrics)[1] * 100
        >= SimilarityThresholdPercent
           * LyricsSimilarity(input.candidates[i].lyrics, input.candidates[j].lyrics)[2]

SomeVerified == \E i, j \in 1..Len(input.candidates) : Verified(i, j)

\* C13: for a list of 2 or more candidates with a pair that reaches similarity
\* 0.35, the selector returns a synced member of such a pair, under its own
\* source tag, when a cross-validated pair has a synced member, and otherwise
\* the first member of the first cross-validated pair in (i, j) order
C13_CrossValidatedChoice ==
    (SelectCalled /\ Len(input.candidates) >= 2 /\ SomeVerified)
    => IF \E i, j \in 1..Len(input.candidates) :
            Verified(i, j) /\ (input.candidates[i].synced \/ input.candidates[j].synced)
       THEN \E i, j \in 1..Len(input.candidates) :
                /\ Verified(i, j)
                /\ \/ input.candidates[i].synced /\ output.value = Picked(i)
                   \/ input.candidates[j].synced /\ output.value = Picked(j)
       ELSE \E i, j \in 1..Len(input.candidates) :
                /\ Verified(i, j)
                /\ output.value = Picked(i)
                /\ \A k, l \in 1..Len(input.candidates) :
                        Verified(k, l) => (k > i \/ (k = i /\ l >= j))

\* C13: of three candidates the first is synced and in no pair; the second,
\* plain, and the third, synced, share 2 of their 5 lines; the third is returned
C13_Witness ==
    /\ SelectCalled
    /\ Len(input.candidates) = 3
    /\ input.candidates[1].synced
    /\ ~Verified(1, 2)
    /\ ~Verified(1, 3)
    /\ ~input.candidates[2].synced
    /\ input.candidates[3].synced
    /\ LyricsSimilarity(input.candidates[2].lyrics, input.candidates[3].lyrics) = <<2, 5>>
    /\ output.value = Picked(3)

\* C14: the selector returns none exactly for the empty list; for a list with
\* no pair that reaches similarity 0.35 (so for every list of one candidate) it
\* returns the first synced candidate when there is one, else the first
\* candidate
C14_SingleSourceChoice ==
    SelectCalled
    => /\ (output.value = NoChoice) <=> (input.candidates = <<>>)
       /\ (input.candidates # <<>> /\ ~SomeVerified)
          => IF \E i \in 1..Len(input.candidates) : input.candidates[i].synced
             THEN \E i \in 1..Len(input.candidates) :
                    /\ input.candidates[i].synced
                    /\ \A k \in 1..(i - 1) : ~input.candidates[k].synced
                    /\ output.value = Picked(i)
             ELSE output.value = Picked(1)

\* C14: of three candidates no pair reaches similarity 0.35, the first two are
\* plain, and the third, synced, is returned
C14_Witness ==
    /\ SelectCalled
    /\ Len(input.candidates) = 3
    /\ ~SomeVerified
    /\ ~input.candidates[1].synced
    /\ ~input.candidates[2].synced
    /\ output.value = Picked(3)

\* a step in which a fetcher is called and returns
IsFetch == nFetch' = nFetch + 1

\* C15 as stated: a fetcher call in which a network call failed returned
\* (none, "not_found")
C15_AsStated ==
    lastFetch.failure # "none"
        => (lastFetch.lyrics = NoText /\ lastFetch.source = "not_found")

\* C15: a fetcher whose last network call failed returns (none, "not_found");
\* after a fetcher returned "not_found" the candidates are as before and the
\* search goes on with the next variation of the tier or the first of a later
\* tier, or returns what it holds when none is left
C15_FailedCallsBecomeNotFound ==
    [][IsFetch
        => /\ lastFetch'.failure = "last"
                => (lastFetch'.lyrics = NoText /\ lastFetch'.source = "not_found")
           /\ lastFetch'.source = "not_found"
                => /\ candidates' = candidates
                   /\ pc' \in {"search", "searched"}
                   /\ pc' = "search"
                        => \/ tier' = tier /\ idx' = idx + 1
                           \/ tier' > tier /\ idx' = 1
                   /\ pc' = "searched"
                        => ret' = [candidates |-> candidates, is_instrumental |-> FALSE]]_vars

\* C15: the lyric download of the secondary lookup failed for the first
\* variation, and the search goes on with the second
C15_Witness ==
    /\ pc = "search"
    /\ tier = 3
    /\ idx = 2
    /\ lastFetch.tier = 3
    /\ lastFetch.failure = "last"
    /\ lastFetch.source = "not_found"

\* the fetcher calls of a search over n variations in which every tier runs
\* over all the variations it is limited to
AllTiers(n) == TierLimit(1, n) + TierLimit(2, n) + TierLimit(3, n) + TierLimit(4, n)

C17_LyricsWriteFailurePropagates ==
    [][pc = "searched"
        => /\ (ret.is_instrumental \/ ret.candidates = <<>>)
                => response' = LyricsResponse(FALSE,
                                              IF ret.is_instrumental THEN "instrumental"
                                              ELSE "exhausted",
                                              FALSE, NoText)
           /\ response'.success => file' = WrittenFile(response'.lyrics, now)
           /\ (~ret.is_instrumental /\ ret.candidates # <<>> /\ ~response'.success)
                => (response' = Raised /\ file' \in FailedWrite(file, now))]_vars

\* C17: the write of the chosen lyrics failed and the request raised
C17_Witness ==
    /\ pc = "idle"
    /\ response = Raised
    /\ ret.candidates # <<>>
    /\ ~file.exists

\* _validate_lyrics has returned
ValidateCalled == input.function = "_validate_lyrics" /\ output.returned

\* the text passes the line-count and HTML checks of _validate_lyrics
PassesBasicChecks(content) ==
    /\ CountLyricLines(content) >= MinLyricLines
    /\ CountLyricLines(content) <= MaxLyricLines
    /\ ~Contains(LowerStr(content), HtmlMarker)
    /\ ~Contains(LowerStr(content), BodyMarker)

\* the text carries timestamps: a line begins with a timestamp and
\* _extract_lrc_timestamps finds one
CarriesTimestamps(content) ==
    HasLrcTimestamps(content) /\ ExtractLrcTimestamps(content) # <<>>

\* the latest timestamp of the text, in milliseconds
LatestMs(content) == MaxOf(ExtractLrcTimestamps(content))

\* C18: for a text that passes the line-count and HTML checks and carries
\* timestamps, and a known duration d, _validate_lyrics accepts exactly when
\* 0.15 * d <= latest timestamp <= d + 30 s (for 180 s it rejects 250 s and
\* 20 s and accepts 170 s); without a duration or without timestamps it
\* returns what the line-count and HTML checks give
C18_DurationWindow ==
    ValidateCalled
    => /\ (/\ PassesBasicChecks(input.content)
           /\ CarriesTimestamps(input.content)
           /\ input.duration_ms # NoDuration)
          => /\ output.value
                  <=> /\ input.duration_ms * MinCoveragePercent
                            <= LatestMs(input.content) * 100
                      /\ LatestMs(input.content) <= input.duration_ms + DurationSlackMs
             /\ (input.duration_ms = 180000 /\ LatestMs(input.content) = 250000)
                  => ~output.value
             /\ (input.duration_ms = 180000 /\ LatestMs(input.content) = 20000)
                  => ~output.value
             /\ (input.duration_ms = 180000 /\ LatestMs(input.content) = 170000)
                  => output.value
       /\ (input.duration_ms = NoDuration \/ ~CarriesTimestamps(input.content))
          => (output.value <=> PassesBasicChecks(input.content))

\* C18: a text whose latest timestamp, 170 s, is not the one of its last line
\* is accepted for a duration of 180 s
C18_Witness ==
    /\ ValidateCalled
    /\ input.duration_ms = 180000
    /\ input.content = JoinLines(<<LineAt170, LineAt27>>)
    /\ LatestMs(input.content) = 170000
    /\ output.value

\* _lyrics_similarity has returned
SimilarityCalled == input.function = "_lyrics_similarity" /\ output.returned

\* the set of the lines that _strip_lrc_to_plain keeps of a text
PlainLineSet(t) == SetOf(PlainLines(SplitLines(t)))

\* C19: _lyrics_similarity(a, a) is 1 when a keeps a line after stripping,
\* _lyrics_similarity(a, "") is 0, and for all a, b the result is the Jaccard
\* index of the two sets of plain lines (0 when one of them is empty), lies in
\* [0, 1] and is the same for (b, a)
C19_SimilarityIsJaccard ==
    SimilarityCalled
    => LET A == PlainLineSet(input.a)
           B == PlainLineSet(input.b)
           sim == output.value
       IN  /\ sim[2] > 0 /\ 0 <= sim[1] /\ sim[1] <= sim[2]
           /\ (input.a = input.b /\ A # {}) => sim[1] = sim[2]
           /\ input.b = NoText => sim[1] = 0
           /\ (A = {} \/ B = {}) => sim[1] = 0
           /\ (A # {} /\ B # {})
              => sim[1] * Cardinality(A \cup B) = sim[2] * Cardinality(A \cap B)
           /\ LET back == LyricsSimilarity(input.b, input.a)
              IN  sim[1] * back[2] = back[1] * sim[2]

\* C19: a timed text of two lines and a plain text that shares one of them,
\* written in capitals, have the similarity 1/2
C19_Witness ==
    /\ SimilarityCalled
    /\ input.a = JoinLines(<<SungTimed, SungNa>>)
    /\ input.b = SungLoud
    /\ output.value = <<1, 2>>

\* _strip_lrc_to_plain has returned
StripCalled == input.function = "_strip_lrc_to_plain" /\ output.returned

\* C20, as stated: no line of _strip_lrc_to_plain(t) begins with a timestamp
\* tag, also when t has several tags on a line, nested tags, or tags with a
\* fraction of one digit or of more than three digits
C20_AsStated ==
    StripCalled
    => \A i \in 1..Len(SplitLines(output.value)) :
           TagLen(SplitLines(output.value)[i], 1) = 0

\* the text has a line that, leading blanks aside, begins with a well-formed
\* [MM:SS] or [MM:SS.xx] tag
HasWellFormedLine(content) ==
    \E i \in 1..Len(SplitLines(content)) :
        TagLen(StripStr(SplitLines(content)[i]), 1) > 0

\* C21, as stated: for a text with at least one well-formed [MM:SS]-prefixed
\* line, leading blanks and malformed tags allowed, _has_lrc_timestamps is true
\* exactly when _extract_lrc_timestamps returns a non-empty list
C21_AsStated ==
    /\ (/\ input.function = "_has_lrc_timestamps" /\ output.returned
         /\ HasWellFormedLine(input.content))
        => (output.value <=> ExtractLrcTimestamps(input.content) # <<>>)
    /\ (/\ input.function = "_extract_lrc_timestamps" /\ output.returned
         /\ HasWellFormedLine(input.content))
        => (HasLrcTimestamps(input.content) <=> output.value # <<>>)

\* _generate_query_variations has returned
VariationsCalled == input.function = "_generate_query_variations" /\ output.returned

\* C22, as stated: when artist and title are both non-empty, the first element
\* of the list is the exact pair (artist, title)
C22_AsStated ==
    (VariationsCalled /\ input.artist # NoText /\ input.title # NoText)
    => /\ output.value # <<>>
       /\ output.value[1] = Variation(input.artist, input.title)

\* the pair of a generation rule, trimmed as _add stores it
Trimmed(rule) == Variation(StripStr(rule[1]), StripStr(rule[2]))

\* the first of the rules that gives the variation v
RuleOf(v, rules) ==
    CHOOSE r \in 1..Len(rules) :
        Trimmed(rules[r]) = v /\ \A q \in 1..(r - 1) : Trimmed(rules[q]) # v

\* vs is made of the trimmed pairs of the rules, in the order of the rules, and
\* every rule with a non-blank artist and title is represented in it
FollowsRules(vs, rules) ==
    /\ \A i \in 1..Len(vs) : \E r \in 1..Len(rules) : Trimmed(rules[r]) = vs[i]
    /\ \A i \in 1..(Len(vs) - 1) : RuleOf(vs[i], rules) < RuleOf(vs[i + 1], rules)
    /\ \A r \in 1..Len(rules) :
           (Trimmed(rules[r]).artist # NoText /\ Trimmed(rules[r]).title # NoText)
           => \E i \in 1..Len(vs) :
                  VariationKey(vs[i].artist, vs[i].title)
                  = VariationKey(rules[r][1], rules[r][2])

\* C22: when artist and title are both non-blank, the first element of the list
\* is the pair (artist, title) with both members trimmed; no two pairs of the list
\* are equal when compared without regard to case after trimming; no pair has an
\* empty artist or an empty title; every pair is the trimmed pair of a generation
\* rule, the pairs stand in the order of their rules, and every rule with a
\* non-blank artist and title is represented in the list
C22_VariationsOrderedAndUnique ==
    VariationsCalled
    => LET vs == output.value
       IN  /\ (StripStr(input.artist) # NoText /\ StripStr(input.title) # NoText)
              => /\ vs # <<>>
                 /\ vs[1] = Variation(StripStr(input.artist), StripStr(input.title))
           /\ \A i, j \in 1..Len(vs) :
                  i < j => VariationKey(vs[i].artist, vs[i].title)
                            # VariationKey(vs[j].artist, vs[j].title)
           /\ \A i \in 1..Len(vs) : vs[i].artist # NoText /\ vs[i].title # NoText
           /\ FollowsRules(vs, GenerationRules(input.artist, input.title))

\* C22: for "The Ab" and "Lo - Mi" the list has five pairs: the exact pair, three
\* pairs with the normalised artist, and the two halves of the title last
C22_Witness ==
    /\ VariationsCalled
    /\ input.artist = ArtistTheAb
    /\ input.title = TitleDash
    /\ Len(output.value) = 5
    /\ output.value[1] = Variation(ArtistTheAb, TitleDash)
    /\ output.value[2] = Variation(ArtistLower, TitleDash)
    /\ output.value[5] = Variation(TitleLo, <<"M", "i">>)

\* the two overlapping requests have finished, and one of them wrote last
BothFinished ==
    /\ threads # <<>>
    /\ \A t \in Overlapping : threads[t].pc = "done"
    /\ disk.lastWrite.by \in Overlapping

\* C23, as stated: after two overlapping requests for one outputPath the file
\* holds what the later write stored, and a following force=false request
\* answers "cached" with those lyrics, or "negative-cache" when it is the marker
C23_LastWriterWins ==
    BothFinished
    => /\ Exists
       /\ ReadText = disk.lastWrite.data
       /\ threads[Follower].pc = "done"
          => threads[Follower].answer
             = IF disk.lastWrite.data = NEGATIVE_CACHE_MARKER
               THEN LyricsResponse(FALSE, "negative-cache", FALSE, NoText)
               ELSE LyricsResponse(TRUE, "cached",
                                   HasLrcTimestamps(StripStr(disk.lastWrite.data)),
                                   StripStr(disk.lastWrite.data))

\* the loop of the tier of the last fetch is over: it has run over all the
\* variations it may take, or it was left by break
LoopOver ==
    \/ lastFetch.variation = Len(variations)
    \/ lastFetch.tier = 2 /\ lastFetch.variation = AggregatorVariations
    \/ lastFetch.tier = 3 /\ lastFetch.variation = SecondaryVariations
    \/ lastFetch.tier = 4 /\ lastFetch.variation = WebSearchVariations
    \/ lastFetch.tier \in 1..3 /\ Len(candidates) >= CandidateQuota
    \/ lastFetch.tier = 4 /\ candidates # <<>>

\* C24: the first fetch of a search is a primary lookup for the first
\* variation; every later fetch is for the next variation of the same tier, or,
\* when the loop of that tier is over, for the first variation of a later tier
C24_TiersInOrder ==
    [][IsFetch
        => IF nFetch = 0
           THEN lastFetch'.tier = 1 /\ lastFetch'.variation = 1
           ELSE \/ /\ lastFetch'.tier = lastFetch.tier
                   /\ lastFetch'.variation = lastFetch.variation + 1
                   /\ ~LoopOver
                \/ /\ lastFetch'.tier > lastFetch.tier
                   /\ lastFetch'.variation = 1
                   /\ LoopOver]_vars

\* C24: the web search runs for the second variation, all four tiers having
\* run before it without a candidate
C24_Witness ==
    /\ lastFetch.tier = 4
    /\ lastFetch.variation = 2
    /\ nFetch = Len(variations) + Min(Len(variations), AggregatorVariations)
                + SecondaryVariations + 2
    /\ Len(variations) >= 3

\* C25: a fetch of the aggregator is made with fewer than 2 candidates, for the
\* variation 1, 2 or 3, the k-th fetch of the tier for the k-th variation; a
\* fetch of the secondary lookup is made with fewer than 2 candidates, for the
\* variation 1 or 2, in the same way
C25_AggregatorAndSecondaryBounded ==
    [][(IsFetch /\ lastFetch'.tier \in {2, 3})
        => /\ Len(candidates) < 2
           /\ lastFetch'.variation <= (IF lastFetch'.tier = 2 THEN 3 ELSE 2)
           /\ lastFetch'.variation
                = IF lastFetch.tier = lastFetch'.tier THEN lastFetch.variation + 1 ELSE 1]_vars

\* C25: with four variations and one candidate, the aggregator has stopped
\* after the third and the secondary lookup runs for the second
C25_Witness ==
    /\ Len(variations) = 4
    /\ lastFetch.tier = 3
    /\ lastFetch.variation = 2
    /\ nFetch = 4 + 3 + 2
    /\ Len(candidates) = 1

\* C26: a fetch of the web search is made without any candidate, for the
\* variation 1 or 2, the first fetch of the tier for the first variation; when
\* it admits a candidate the search returns; and a search that has a candidate
\* after the secondary lookup returns without a web search
C26_WebSearchLastResort ==
    [][IsFetch
        => /\ lastFetch'.tier = 4
              => /\ candidates = <<>>
                 /\ lastFetch'.variation <= 2
                 /\ lastFetch'.variation
                      = IF lastFetch.tier = 4 THEN lastFetch.variation + 1 ELSE 1
                 /\ candidates' # <<>> => pc' = "searched"
           /\ (lastFetch'.tier \in 1..3 /\ candidates' # <<>> /\ pc' = "search")
              => tier' # 4]_vars

\* C26: the search has returned with exactly one candidate and without a web
\* search, the secondary lookup being its last fetch
C26_Witness ==
    /\ pc = "searched"
    /\ ~ret.is_instrumental
    /\ Len(ret.candidates) = 1
    /\ lastFetch.tier = 3
    /\ lastFetch.variation = SecondaryVariations

\* C26: the web search admitted a candidate for the first of several variations
\* and the search returned
C26_WitnessStops ==
    /\ pc = "searched"
    /\ lastFetch.tier = 4
    /\ lastFetch.variation = 1
    /\ Len(variations) >= 2
    /\ Len(ret.candidates) = 1

\* C27: the primary lookup gets the album of the request for the first
\* variation and no album for any later variation
C27_AlbumOnFirstVariationOnly ==
    lastFetch.tier = 1
    => /\ lastFetch.variation = 1 => lastFetch.album = request.album
       /\ lastFetch.variation >= 2 => lastFetch.album = NoText

\* C27: the request names an album, the first primary lookup failed, and the
\* second is made without album
C27_Witness ==
    /\ request.album = AlbumAl
    /\ lastFetch.tier = 1
    /\ lastFetch.variation = 2
    /\ lastFetch.album = NoText
    /\ candidates = <<>>

(***************************************************************************)
(* _fetch_from_lrclib called alone: /get answers 404, /search answers a   *)
(* list of at most MaxEntries entries of EntryPool                         *)
(***************************************************************************)

MaxEntries == 2

\* entries for the query "Ab" - "Lo Mi" of 180 s: with plain lyrics only, with
\* both, with synced lyrics only, without lyrics, 15 s longer, of another
\* artist, of another length, instrumental
EntryPlain == LrclibEntry(FALSE, NameAb, NameLoMi, 0, NoText, PlainA)

EntryBoth == LrclibEntry(FALSE, NameAb, NameLoMi, 185, SyncedC, PlainB)

EntrySynced == LrclibEntry(FALSE, NameAb, NameLoMi, 180, SyncedA, NoText)

EntryBare == LrclibEntry(FALSE, NameAb, NameLoMi, 180, NoText, NoText)

EntryEdge == LrclibEntry(FALSE, NameAb, NameLoMi, 195, LateD, NoText)

EntryOther == LrclibEntry(FALSE, NameZz, NameLoMi, 180, SyncedA, PlainA)

EntryFar == LrclibEntry(FALSE, NameAb, NameLoMi, 196, SyncedA, PlainA)

EntryInstrumental == LrclibEntry(TRUE, NameAb, NameLoMi, 180, NoText, NoText)

EntryPool ==
    {EntryPlain, EntryBoth, EntrySynced, EntryBare, EntryEdge, EntryOther, EntryFar,
     EntryInstrumental}

LrclibInit ==
    /\ ServiceInit
    /\ NoOverlap
    /\ input \in {[function |-> "_fetch_from_lrclib", artist |-> NameAb, title |-> NameLoMi,
                   duration_ms |-> d, results |-> r] :
                    d \in {NoDuration, 180000}, r \in ListsOf(EntryPool, MaxEntries)}
    /\ output = NoOutput

\* _fetch_from_lrclib(artist, title, None, duration_seconds)
FetchFromLrclibCall ==
    Returns("_fetch_from_lrclib",
            FetchFromLrclib([get |-> GetMiss,
                             search |-> [raises |-> FALSE, status |-> HttpOk,
                                         results |-> input.results]],
                            input.artist, input.title, NoText, input.duration_ms))

LrclibSpec == LrclibInit /\ [][FetchFromLrclibCall]_vars

LrclibCalled == output # NoOutput /\ input.function = "_fetch_from_lrclib"

\* the entry passes the fuzzy match and the duration filter, and carries lyrics
Passes(entry) ==
    /\ ~entry.instrumental
    /\ FuzzyMatchArtistTitle(entry.artistName, entry.trackName, input.artist, input.title)
    /\ \/ input.duration_ms = NoDuration
       \/ entry.duration = 0
       \/ Abs(entry.duration * 1000 - input.duration_ms) <= 15000
    /\ entry.syncedLyrics # NoText \/ entry.plainLyrics # NoText

\* C28: the search mode returns the text of the first entry that passes, its
\* synced lyrics when it has some and its plain lyrics otherwise, and nothing
\* when no entry passes
C28_FirstMatchWins ==
    LrclibCalled
    => LET passing == {i \in 1..Len(input.results) : Passes(input.results[i])}
       IN  IF passing = {}
           THEN output.value = NotFound
           ELSE LET first == input.results[CHOOSE i \in passing : \A j \in passing : i <= j]
                IN  output.value
                     = IF first.syncedLyrics # NoText
                       THEN Fetched(first.syncedLyrics, "lrclib-search-synced")
                       ELSE Fetched(first.plainLyrics, "lrclib-search-plain")

(***************************************************************************)
(* _fuzzy_match_artist_title called alone, with artists of MatchArtists    *)
(* and titles of MatchTitles                                               *)
(***************************************************************************)

\* "Abba"
ArtistAbba ==
    <<"A", "b", "b", "a">>

\* "Cd Zz"
ArtistCdZz ==
    <<"C", "d", " ", "Z", "z">>

\* "Lo Mi Fa"
TitleLoMiFa ==
    <<"L", "o", " ", "M", "i", " ", "F", "a">>

\* "Mi Fa Zz"
TitleMiFaZz ==
    <<"M", "i", " ", "F", "a", " ", "Z", "z">>

\* "?!"
TitleMarks ==
    <<"?", "!">>

MatchArtists == {ArtistAb, ArtistTheAb, ArtistDuo, ArtistAbba, ArtistCdZz, ArtistBlank}

MatchTitles ==
    {TitleLo, NameLoMi, TitlePunct, TitleLoMiFa, TitleMiFaZz, TitleLive, TitleMarks}

FuzzyInit ==
    /\ ServiceInit
    /\ NoOverlap
    /\ input \in {[function |-> "_fuzzy_match_artist_title", result_artist |-> ra,
                   result_title |-> rt, query_artist |-> qa, query_title |-> qt] :
                    ra \in MatchArtists, rt \in MatchTitles,
                    qa \in MatchArtists, qt \in MatchTitles}
    /\ output = NoOutput

\* _fuzzy_match_artist_title(result_artist, result_title, query_artist, query_title)
FuzzyMatchArtistTitleCall ==
    Returns("_fuzzy_match_artist_title",
            FuzzyMatchArtistTitle(input.result_artist, input.result_title,
                                  input.query_artist, input.query_title))

FuzzySpec == FuzzyInit /\ [][FuzzyMatchArtistTitleCall]_vars

FuzzyCalled == output # NoOutput /\ input.function = "_fuzzy_match_artist_title"

\* the words of the normalized title asked for, and those of them that occur
\* in the normalized title of the candidate
TitleWordsAsked == WordSet(NormalizeText(input.query_title))

TitleWordsFound ==
    {w \in TitleWordsAsked : w \in WordSet(NormalizeText(input.result_title))}

\* the normalized artists share a word, or one contains the other
ArtistsAgree ==
    LET qa == NormalizeArtist(input.query_artist)
        ra == NormalizeArtist(input.result_artist)
    IN  \/ \E w \in WordSet(qa) : w \in WordSet(ra)
        \/ Contains(ra, qa)
        \/ Contains(qa, ra)

\* C29: the match is accepted exactly when the title asked for has words, at
\* least half of them occur in the title of the candidate, and the artists
\* agree
C29_AcceptsExactly ==
    FuzzyCalled
    => (output.value
         <=> /\ TitleWordsAsked # {}
             /\ 2 * Cardinality(TitleWordsFound) >= Cardinality(TitleWordsAsked)
             /\ ArtistsAgree)

\* C29: accepted with exactly half of the words of the title and with artists
\* that share no word, one name being part of the other
C29_Witness ==
    /\ FuzzyCalled
    /\ output.value
    /\ Cardinality(TitleWordsAsked) = 2
    /\ Cardinality(TitleWordsFound) = 1
    /\ input.query_artist = ArtistAb
    /\ input.result_artist = ArtistAbba

\* C29: rejected for a title without words, the artists being the same
C29_WitnessNoWords ==
    /\ FuzzyCalled
    /\ ~output.value
    /\ TitleWordsAsked = {}
    /\ input.query_title = input.result_title
    /\ input.query_artist = ArtistAb
    /\ input.result_artist = ArtistAb

\* C30: for a list with candidates, the text and the source the selector
\* returns are the text and the source of one and the same candidate of the list
C30_ReturnsOneOfTheCandidates ==
    (SelectCalled /\ input.candidates # <<>>)
    => \E i \in 1..Len(input.candidates) :
          /\ output.value.lyrics = input.candidates[i].lyrics
          /\ output.value.source = input.candidates[i].source

\* C30: of three candidates the selector returned the third, the only synced
\* one, with its own text and source
C30_Witness ==
    /\ SelectCalled
    /\ Len(input.candidates) = 3
    /\ output.value.source = input.candidates[3].source
    /\ output.value.lyrics = input.candidates[3].lyrics
    /\ input.candidates[3].synced
    /\ ~input.candidates[1].synced
    /\ ~input.candidates[2].synced

\* C31: a force=false request that follows a request answered with lyrics
\* (resolved, or cached itself) is answered "cached" with the text of the file,
\* makes no fetch and leaves the file as it is; and the file changes only in
\* the start of a force=true request or at the end of a search
C31_ResolvedLyricsStay ==
    [][/\ (IsStart /\ response.success /\ ~request'.force)
            => /\ response'.success
               /\ response'.source = "cached"
               /\ response'.lyrics = StripStr(file.content)
               /\ pc' = "idle"
               /\ nFetch' = 0
               /\ file' = file
       /\ file' # file => \/ IsStart /\ request'.force
                          \/ pc = "searched"]_vars

\* C31: lyrics written 30 days ago, the age at which a marker expires, are
\* answered "cached" to a force=false request
C31_Witness ==
    /\ pc = "idle"
    /\ ~request.force
    /\ response.source = "cached"
    /\ file.exists
    /\ AgeOf(file) >= NEGATIVE_CACHE_MAX_AGE_DAYS
    /\ response.lyrics = StripStr(file.content)
    /\ nFetch = 0

\* the file is absent, holds exactly the sentinel, or holds a text that
\* passes validation
FileAbsentMarkerOrValid(f) ==
    \/ ~f.exists
    \/ f.content = NEGATIVE_CACHE_MARKER
    \/ \E d \in Durations : ValidateLyricsOf[f.content, d]

\* the search of a force=false request that found an expired marker has
\* returned without lyrics
FoundNothingAgain ==
    /\ pc = "searched"
    /\ ~request.force
    /\ NegativeCacheFile(file)
    /\ AgeOf(file) >= NEGATIVE_CACHE_MAX_AGE_DAYS
    /\ (ret.is_instrumental \/ ret.candidates = <<>>)

\* C32: every step leaves the file absent, with exactly the sentinel, or with
\* a text that passes validation; a force=false request that found an expired
\* marker and finds nothing writes the marker anew, with the age 0, so that it
\* is valid for the 30 days that follow; and a force=false request that finds a
\* marker younger than 30 days is answered "negative-cache" without a fetch
C32_FileContentAndMarkerRenewal ==
    [][/\ FileAbsentMarkerOrValid(file')
       /\ FoundNothingAgain
            => /\ file' = WrittenFile(NEGATIVE_CACHE_MARKER, now)
               /\ \A d \in 0..(NEGATIVE_CACHE_MAX_AGE_DAYS - 1) :
                    IsNegativeCacheValid(file', now + d)
               /\ ~IsNegativeCacheValid(file', now + NEGATIVE_CACHE_MAX_AGE_DAYS)
       /\ (IsStart /\ ~request'.force /\ NegativeCacheFile(file)
              /\ AgeOf(file) < NEGATIVE_CACHE_MAX_AGE_DAYS)
            => /\ response'.source = "negative-cache"
               /\ nFetch' = 0
               /\ file' = file]_vars

\* C32: 30 days or more after the start, a force=false request that searched
\* and found nothing has left a marker of age 0
C32_Witness ==
    /\ pc = "idle"
    /\ ~request.force
    /\ response.source \in {"exhausted", "instrumental"}
    /\ nFetch > 0
    /\ now >= NEGATIVE_CACHE_MAX_AGE_DAYS
    /\ file = WrittenFile(NEGATIVE_CACHE_MARKER, now)

\* the source tags of the web search
WebSourceTags == {"web-" \o u.domain : u \in {UrlBlog, UrlGenius}}

\* C33: a candidate of the web search is the only candidate of its list, and a
\* request answered with a source tag of the web search is answered with the
\* text of the only candidate the search returned
C33_WebCandidateAlone ==
    /\ \A i \in 1..Len(candidates) :
          candidates[i].source \in WebSourceTags => Len(candidates) = 1
    /\ (pc = "idle" /\ response.source \in WebSourceTags)
          => /\ Len(ret.candidates) = 1
             /\ response.lyrics = ret.candidates[1].lyrics
             /\ response.source = ret.candidates[1].source

\* C33: a request answered with the text of a web page
C33_Witness ==
    /\ pc = "idle"
    /\ response.success
    /\ response.source \in WebSourceTags
    /\ lastFetch.tier = 4

\* the outcomes the answer of fetch_lyrics is one of
OutcomesOf(r) ==
    {o \in {"cached", "negative-cache", "instrumental", "exhausted", "resolved",
            "write failure"} :
        \/ o = "cached" /\ r.success /\ r.source = "cached"
        \/ o = "negative-cache" /\ ~r.success /\ r.source = "negative-cache"
        \/ o = "instrumental" /\ ~r.success /\ r.source = "instrumental"
        \/ o = "exhausted" /\ ~r.success /\ r.source = "exhausted"
        \/ o = "resolved" /\ r.success /\ r.lyrics # NoText
             /\ \E i \in 1..Len(ret.candidates) : r.source = ret.candidates[i].source
        \/ o = "write failure" /\ r = Raised}

JOB_TTL_SECONDS == 3600

\* the clock advances by this many seconds at a time, at most MaxJobTicks times
JobClockStep == 1801

MaxJobTicks == 2

TrackIds == {"t1"}

\* the worker threads serving POST /api/separate
Callers == {1, 2}

\* dict.get(key, {})
Get(dict, key) == IF key \in DOMAIN dict THEN dict[key] ELSE <<>>

\* dict[key] = value
Put(dict, key, value) ==
    [k \in DOMAIN dict \cup {key} |-> IF k = key THEN value ELSE dict[k]]

\* dict.pop(key, None)
Pop(dict, key) == [k \in DOMAIN dict \ {key} |-> dict[k]]

\* the result dictionary of a finished separation
SeparationResult ==
    [instrumental_path |-> "instrumental.wav", vocal_path |-> "vocals.wav"]

\* the dictionaries that separate_audio and run_separation pass whole to
\* update_job_progress, by the position of the call: 0 in separate_audio,
\* 1 at the start of run_separation, 5 at its end, 6 in its except clause
FullRecord(stage, track_id) ==
    CASE stage = 0 ->
           [trackId |-> track_id, state |-> "PROCESSING", progress |-> 0,
            message |-> "Starting separation"]
      [] stage = 1 ->
           [trackId |-> track_id, state |-> "PROCESSING", progress |-> 5,
            message |-> "Loading model"]
      [] stage = 5 ->
           [trackId |-> track_id, state |-> "READY", progress |-> 100,
            message |-> "Complete", result |-> SeparationResult]
      [] OTHER ->
           [trackId |-> track_id, state |-> "FAILED", progress |-> 0,
            message |-> "separation failed"]

\* progress and message of the three updates of run_separation that start
\* from the recorded dictionary (stages 2, 3, 4)
MergedFields(stage) ==
    CASE stage = 2 -> [progress |-> 10, message |-> "Separating audio (AI processing)"]
      [] stage = 3 -> [progress |-> 85, message |-> "Processing output files"]
      [] OTHER -> [progress |-> 90, message |-> "Mixing instrumental tracks"]

\* {**recorded, "progress": ..., "message": ...}
Merged(recorded, fields) ==
    [k \in DOMAIN recorded \cup {"progress", "message"} |->
        IF k \in DOMAIN fields THEN fields[k] ELSE recorded[k]]

\* a worker thread: where it stands in separate_audio, the track it works on,
\* the update of run_separation it is at, the dictionary it is about to record,
\* how run_separation ended ("READY", "FAILED"), and the last answer given
Caller(p, track_id, stage, data, ran, answer) ==
    [pc |-> p, track |-> track_id, stage |-> stage, data |-> data, ran |-> ran,
     answer |-> answer]

NoAnswer == [status |-> 0, instrumental_path |-> ""]

IdleCaller == Caller("idle", "none", 0, <<>>, "none", NoAnswer)

JobInit ==
    /\ ServiceInit
    /\ input = NoInput
    /\ output = NoOutput
    /\ disk = NoDisk
    /\ threads = [c \in Callers |-> IdleCaller]
    /\ NoJobs

\* time passes in the container
JobTick ==
    /\ clock + JobClockStep <= MaxJobTicks * JobClockStep
    /\ clock' = clock + JobClockStep
    /\ UNCHANGED <<input, output, serviceVars, disk, threads, job_progress,
                   job_timestamps, cleaner>>

\* separate_audio refuses the request before touching the job dictionaries:
\* a path outside the allowed roots (403) or a missing input file (404)
SeparateAudioRefuse(c) ==
    /\ threads[c].pc = "idle"
    /\ \E status \in {403, 404}, track_id \in TrackIds :
         threads' = [threads EXCEPT ![c] =
            Caller("idle", track_id, 0, <<>>, "none",
                   [status |-> status, instrumental_path |-> ""])]
    /\ UNCHANGED <<input, output, serviceVars, disk, jobVars>>

\* separate_audio accepts the request and calls update_job_progress
SeparateAudioStart(c) ==
    /\ threads[c].pc = "idle"
    /\ \E track_id \in TrackIds :
         threads' = [threads EXCEPT ![c] =
            Caller("put", track_id, 0, FullRecord(0, track_id), "none", NoAnswer)]
    /\ UNCHANGED <<input, output, serviceVars, disk, jobVars>>

\* job_progress.get(track_id, {}) in the argument of update_job_progress
UpdateRead(c) ==
    /\ threads[c].pc = "read"
    /\ threads' = [threads EXCEPT ![c].pc = "put",
                                  ![c].data = Merged(Get(job_progress, threads[c].track),
                                                     MergedFields(threads[c].stage))]
    /\ UNCHANGED <<input, output, serviceVars, disk, jobVars>>

\* update_job_progress, first statement: job_progress[track_id] = data
UpdatePut(c) ==
    /\ threads[c].pc = "put"
    /\ job_progress' = Put(job_progress, threads[c].track, threads[c].data)
    /\ threads' = [threads EXCEPT ![c].pc = "stamp"]
    /\ UNCHANGED <<input, output, serviceVars, disk, job_timestamps, clock, cleaner>>

\* where the thread goes after the update of the given stage when the work up
\* to the next update succeeds
Proceeds(caller) ==
    CASE caller.stage = 0 ->
           [caller EXCEPT !.pc = "put", !.stage = 1,
                          !.data = FullRecord(1, caller.track)]
      [] caller.stage \in {1, 2, 3} ->
           [caller EXCEPT !.pc = "read", !.stage = caller.stage + 1, !.data = <<>>]
      [] caller.stage = 4 ->
           [caller EXCEPT !.pc = "put", !.stage = 5,
                          !.data = FullRecord(5, caller.track)]
      [] caller.stage = 5 ->
           [caller EXCEPT !.pc = "final", !.data = <<>>, !.ran = "READY"]
      [] OTHER ->
           [caller EXCEPT !.pc = "final", !.data = <<>>, !.ran = "FAILED"]

\* the work up to the next update raises: the except clause of run_separation
Raises(caller) ==
    [caller EXCEPT !.pc = "put", !.stage = 6, !.data = FullRecord(6, caller.track)]

\* update_job_progress, second statement: job_timestamps[track_id] = time.time(),
\* and the work of run_separation up to its next update
UpdateStamp(c) ==
    /\ threads[c].pc = "stamp"
    /\ job_timestamps' = Put(job_timestamps, threads[c].track, clock)
    /\ \/ threads' = [threads EXCEPT ![c] = Proceeds(threads[c])]
       \/ /\ threads[c].stage \in 1..4
          /\ threads' = [threads EXCEPT ![c] = Raises(threads[c])]
    /\ UNCHANGED <<input, output, serviceVars, disk, job_progress, clock, cleaner>>

\* the answer separate_audio gives for the dictionary it reads back
AnswerFor(final_status) ==
    IF "state" \in DOMAIN final_status /\ final_status.state = "FAILED"
    THEN [status |-> 500, instrumental_path |-> ""]
    ELSE [status |-> 200,
          instrumental_path |->
              IF "result" \in DOMAIN final_status
              THEN final_status.result.instrumental_path ELSE ""]

\* separate_audio after run_separation returned: it reads the record back
SeparateAudioFinish(c) ==
    /\ threads[c].pc = "final"
    /\ threads' = [threads EXCEPT ![c].pc = "idle",
                                  ![c].answer = AnswerFor(Get(job_progress, threads[c].track))]
    /\ UNCHANGED <<input, output, serviceVars, disk, jobVars>>

\* periodic_cleanup wakes up; cleanup_expired_jobs reads the time and starts
\* to walk job_timestamps.items()
CleanupBegin ==
    /\ cleaner.pc = "sleep"
    /\ cleaner' = [pc |-> "scan", now |-> clock,
                   size |-> Cardinality(DOMAIN job_timestamps),
                   visited |-> {}, expired |-> <<>>]
    /\ UNCHANGED <<input, output, serviceVars, disk, threads, job_progress,
                   job_timestamps, clock>>

\* one step of the walk: the iterator raises RuntimeError when the dictionary
\* changed size, which ends the thread (periodic_cleanup catches nothing);
\* otherwise the next entry is tested, or the walk is over
CleanupScan ==
    /\ cleaner.pc = "scan"
    /\ IF Cardinality(DOMAIN job_timestamps) # cleaner.size
       THEN cleaner' = [cleaner EXCEPT !.pc = "dead"]
       ELSE IF DOMAIN job_timestamps \subseteq cleaner.visited
            THEN cleaner' = [cleaner EXCEPT
                    !.pc = IF cleaner.expired = <<>> THEN "sleep" ELSE "pop_progress"]
            ELSE \E tid \in DOMAIN job_timestamps \ cleaner.visited :
                    cleaner' = [cleaner EXCEPT
                        !.visited = @ \cup {tid},
                        !.expired = IF cleaner.now - job_timestamps[tid] > JOB_TTL_SECONDS
                                    THEN Append(@, tid) ELSE @]
    /\ UNCHANGED <<input, output, serviceVars, disk, threads, job_progress,
                   job_timestamps, clock>>

\* job_progress.pop(tid, None)
CleanupPopProgress ==
    /\ cleaner.pc = "pop_progress"
    /\ job_progress' = Pop(job_progress, Head(cleaner.expired))
    /\ cleaner' = [cleaner EXCEPT !.pc = "pop_timestamp"]
    /\ UNCHANGED <<input, output, serviceVars, disk, threads, job_timestamps, clock>>

\* job_timestamps.pop(tid, None)
CleanupPopTimestamp ==
    /\ cleaner.pc = "pop_timestamp"
    /\ job_timestamps' = Pop(job_timestamps, Head(cleaner.expired))
    /\ cleaner' = [cleaner EXCEPT
          !.expired = Tail(@),
          !.pc = IF Tail(cleaner.expired) = <<>> THEN "sleep" ELSE "pop_progress"]
    /\ UNCHANGED <<input, output, serviceVars, disk, threads, job_progress, clock>>

JobNext ==
    \/ JobTick
    \/ \E c \in Callers :
          \/ SeparateAudioRefuse(c)
          \/ SeparateAudioStart(c)
          \/ UpdateRead(c)
          \/ UpdatePut(c)
          \/ UpdateStamp(c)
          \/ SeparateAudioFinish(c)
    \/ CleanupBegin
    \/ CleanupScan
    \/ CleanupPopProgress
    \/ CleanupPopTimestamp

JobSpec == JobInit /\ [][JobNext]_vars


\* no worker thread is between the two statements of update_job_progress and
\* the cleanup thread is not between its two pops
BetweenUpdates ==
    /\ \A c \in Callers : threads[c].pc # "stamp"
    /\ cleaner.pc # "pop_timestamp"

\* C35: job_progress and job_timestamps hold the same track ids, and every
\* progress record has its trackId and state fields, whatever the interleaving
\* of cleanup_expired_jobs with update_job_progress.  The claim says so of
\* every reachable state; it is stated here of the states between updates
\* only, where the two statements of an update and the two pops of the cleanup
\* are complete.
C35_SameTrackIds ==
    BetweenUpdates =>
        /\ DOMAIN job_progress = DOMAIN job_timestamps
        /\ \A tid \in DOMAIN job_progress :
              {"trackId", "state"} \subseteq DOMAIN job_progress[tid]

\* the two ways it fails, each with one worker thread
C35_TimestampWithoutProgress ==
    /\ threads[2] = IdleCaller
    /\ BetweenUpdates
    /\ DOMAIN job_timestamps # {}
    /\ DOMAIN job_progress = {}

C35_RecordWithoutState ==
    /\ threads[2] = IdleCaller
    /\ BetweenUpdates
    /\ \E tid \in DOMAIN job_progress : "state" \notin DOMAIN job_progress[tid]


\* the worker thread c is the only one that ever received a request
OnlyCaller(c) == \A o \in Callers \ {c} : threads[o] = IdleCaller

\* what the claim says run_separation leaves behind
Settled(recorded) ==
    /\ {"state", "progress", "message"} \subseteq DOMAIN recorded
    /\ \/ /\ recorded.state = "READY"
          /\ recorded.progress = 100
          /\ "result" \in DOMAIN recorded
       \/ /\ recorded.state = "FAILED"
          /\ recorded.progress = 0

\* C36: when run_separation has returned, the recorded state of the job is
\* READY with progress 100 and a result, or FAILED with progress 0 and a
\* message, never PROCESSING; and separate_audio answers 500 exactly when the
\* separation ended FAILED.  Stated of a worker thread that is the only one
\* to have received a request, so that no other job writes the same record.
C36_SettledWhenReturned ==
    \A c \in Callers :
        OnlyCaller(c) =>
            /\ threads[c].pc = "final" =>
                  Settled(Get(job_progress, threads[c].track))
            /\ (threads[c].pc = "idle" /\ threads[c].ran # "none") =>
                  (threads[c].answer.status = 500 <=> threads[c].ran = "FAILED")

\* the ways it fails: the record is gone when run_separation returns, and a
\* separation that ended in the except clause is answered 200 with no path
C36_RecordGone ==
    \E c \in Callers :
        /\ OnlyCaller(c)
        /\ threads[c].pc = "final"
        /\ threads[c].track \notin DOMAIN job_progress

C36_FailedAnswered200 ==
    \E c \in Callers :
        /\ OnlyCaller(c)
        /\ threads[c].pc = "idle"
        /\ threads[c].ran = "FAILED"
        /\ threads[c].answer = [status |-> 200, instrumental_path |-> ""]


====
